---- MODULE Spec2Model ----
(***************************************************************************)
(* Call builders of the generated chromemanagement1 client and their       *)
(* doit() request pipeline: FieldClash check, parameter and URL assembly,  *)
(* the token / request / retry loop and the delegate hooks (Spec); the     *)
(* setters of the hub (SpecHub); and the generated billingbudgets1-beta1   *)
(* command line program: Engine::new with its dry run, Engine::doit and    *)
(* main (SpecCli). SpecLive is Spec with doit() running to completion,     *)
(* SpecUrl sends path-parameter values through the URL assembly, and       *)
(* SpecDate sends GoogleTypeDate values through their JSON form.           *)
(***************************************************************************)
EXTENDS Integers, Sequences, FiniteSets, TLC

VARIABLES
    hub,          \* ChromeManagement: _user_agent, _base_url, _root_url
    hubOps,       \* the hub setter calls so far: setter, value given, value
                  \* returned
    method,       \* which call builder this is (its MethodInfo id)
    self,         \* the builder's fields
    calls,        \* number of setter calls made on the builder; doit() consumes
                  \* the builder and the count starts over
    scopeOps,     \* history of the scope setters called: "add" / "clear"
    paramOps,     \* history of the param() calls: <<name, value>>
    pc,           \* hub while the hub is set up; then the position inside
                  \* doit(): build, token, send, wait, sleep, done
    params,       \* doit's local Params: sequence of <<name, value>>
    url,          \* doit's local url: sequence of text pieces
    token,        \* the token of the current loop iteration, until its request
                  \* has been answered
    request,      \* the HTTP request in flight
    retry,        \* the client::Retry answer of the last retry hook
    attempts,     \* number of loop iterations started
    asked,        \* the scope sets handed to hub.auth.get_token so far
    hookArgs,     \* what the last retry / decode hook was called with
    givenScopes,  \* the builder's _scopes when doit() was called
    response,     \* the outcome of the request of the current iteration
    responses,    \* the kinds of all request outcomes so far, in order
    trace,        \* delegate hooks, token acquisitions ("Err" after one that
                  \* failed), requests and sleeps, in order
    result,       \* what doit() returned
    matches,      \* the command line of the CLI as clap matched it:
                  \* subcommand, -p arguments, arguments present
    cliPc,        \* position inside the CLI's main: main, created, returned,
                  \* exit; off where no CLI runs
    engineNew,    \* what Engine::new returned
    cliCall,      \* the call builder Engine::_doit(false) has set up
    apiCalls,     \* number of call.doit() calls made by the CLI
    doitResult,   \* what Engine::doit returned
    stderr,       \* what the CLI has written to standard error, in order
    exitStatus,   \* the status the process exits with
    date,         \* a GoogleTypeDate value
    json,         \* the JSON text the value was serialized to, as tokens
    decoded       \* the GoogleTypeDate value deserialized from that text

vars == <<hub, hubOps, method, self, calls, scopeOps, paramOps, pc, params, url,
          token, request, retry, attempts, asked, hookArgs, givenScopes, response,
          responses, trace, result, matches, cliPc, engineNew, cliCall, apiCalls,
          doitResult, stderr, exitStatus, date, json, decoded>>

dateVars == <<date, json, decoded>>
cliVars == <<matches, cliPc, engineNew, cliCall, apiCalls, doitResult, stderr, exitStatus>>
builderVars == <<method, self, calls, scopeOps, paramOps>>
doitVars == <<pc, params, url, token, request, retry, attempts, asked, hookArgs,
              givenScopes, response, responses, trace, result>>

----------------------------------------------------------------------------
(* Bounds of the model *)

\* builder setter calls before doit()
MaxBuilderCalls == 2
\* iterations of doit's loop that are followed
MaxAttempts == 2
\* hub setter calls that are followed
MaxHubCalls == 3

----------------------------------------------------------------------------
(* Values *)

\* Option<T>: None, or Some(v) as a one-element sequence
None == << >>
Some(v) == <<v>>

\* _delegate: None
NoDelegate == "None"

ScopeAppdetail == "https://www.googleapis.com/auth/chrome.management.appdetails.readonly"
ScopeReport == "https://www.googleapis.com/auth/chrome.management.reports.readonly"
ScopeTelemetry == "https://www.googleapis.com/auth/chrome.management.telemetry.readonly"

\* the scopes a caller passes to add_scope / add_scopes
CallerScopes == {ScopeAppdetail, ScopeReport}

AndroidGet == "chromemanagement.customers.apps.android.get"
DeviceList == "chromemanagement.customers.telemetry.devices.list"
Methods == {AndroidGet, DeviceList}

\* the sequences over S of length up to n
SeqsUpTo(S, n) == UNION {[1..k -> S] : k \in 0..n}

\* values of the path parameter (name / parent), character by character
PathValues == { <<"c", "/", "a">>, <<"a", " ">> }
\* the value the builder is created with; name() / parent() can replace it
FirstPath == <<"c", "/", "a">>

\* names a caller passes to param()
AdditionalNames == {"alt", "name", "pageSize", "key"}
AdditionalValues == { <<"1">>, <<"&">> }
\* the param() calls followed: every name with the first value, key with both
ParamArgs ==
    {a \in AdditionalNames \X AdditionalValues : a[2] = <<"1">> \/ a[1] = "key"}

ProviderToken == "provider-token"
DelegateToken == "delegate-token"

\* the delegates a caller installs with delegate(): one that always asks for a
\* retry, and one whose hooks may answer anything
Delegates == {"RetryingDelegate", "AnyDelegate"}

----------------------------------------------------------------------------
(* The operations' static tables *)

\* variant: the field list without "alt"
FieldsNoAlt(m) ==
    IF m = AndroidGet THEN <<"name">>
    ELSE <<"parent", "readMask", "pageToken", "pageSize", "filter">>

\* doit: the field list of the FieldClash loop
Fields(m) ==
    IF m = AndroidGet THEN <<"alt", "name">>
    ELSE <<"alt", "parent", "readMask", "pageToken", "pageSize", "filter">>

\* doit: the parameter substituted into the URL template, and removed afterwards
PathParam(m) == IF m = AndroidGet THEN "name" ELSE "parent"

\* doit: the URL template after the base url, as text pieces
UrlTemplate(m) ==
    IF m = AndroidGet THEN <<"v1/", "{+name}">>
    ELSE <<"v1/", "{+parent}", "/telemetry/devices">>

\* doit: the scope inserted when the builder's scope set is empty
DefaultScope(m) == IF m = AndroidGet THEN ScopeAppdetail ELSE ScopeTelemetry

----------------------------------------------------------------------------
(* The hub and a fresh call builder *)

HubNew ==
    [ _user_agent |-> "google-api-rust-client/5.0.2",
      _base_url   |-> "https://chromemanagement.googleapis.com/",
      _root_url   |-> "https://chromemanagement.googleapis.com/" ]

\* apps_android_get(name) / telemetry_devices_list(parent); _path is the
\* builder's _name, respectively _parent
NewCall(path) ==
    [ _path              |-> path,
      _read_mask         |-> None,
      _page_token        |-> None,
      _page_size         |-> None,
      _filter            |-> None,
      _delegate          |-> NoDelegate,
      _additional_params |-> << >>,
      _scopes            |-> {} ]

NoResult == [kind |-> "none"]
NoRequest == [sent |-> FALSE]
NoRetry == [kind |-> "none", d |-> "-"]
NoArgs == [hook |-> "none"]
NoResponse == [kind |-> "none"]

\* user_agent / base_url / root_url: mem::replace(&mut self.<field>, new)
HubSetterField(setter) ==
    CASE setter = "user_agent" -> "_user_agent"
      [] setter = "base_url" -> "_base_url"
      [] setter = "root_url" -> "_root_url"

\* variant: the setter hands back the value it has just stored
HubSetterReturnsNew(h, setter, new) ==
    [ hub      |-> [h EXCEPT ![HubSetterField(setter)] = new],
      returned |-> new ]

\* a hub setter: the hub afterwards and the value returned
HubSetter(h, setter, new) ==
    [ hub      |-> [h EXCEPT ![HubSetterField(setter)] = new],
      returned |-> h[HubSetterField(setter)] ]

\* values callers give to the setters
AgentNames == {"custom-agent/1.0", "google-api-rust-client/5.0.2"}
Urls == {"http://localhost:8080/", "https://chromemanagement.googleapis.com/"}
HubSetterValues(setter) == IF setter = "user_agent" THEN AgentNames ELSE Urls
HubSetters == {"user_agent", "base_url", "root_url"}

\* the record of one setter call
HubOp(h, setter, new) ==
    [setter |-> setter, given |-> new, returned |-> HubSetter(h, setter, new).returned]

\* the hub and the record of its setter calls after a sequence of
\* <<setter, value>> calls
RECURSIVE RunHubSetters(_, _, _)
RunHubSetters(h, ops, todo) ==
    IF todo = << >> THEN [hub |-> h, ops |-> ops]
    ELSE RunHubSetters(HubSetter(h, Head(todo)[1], Head(todo)[2]).hub,
                       Append(ops, HubOp(h, Head(todo)[1], Head(todo)[2])),
                       Tail(todo))

\* the setter calls made on the hub before the call builder borrows it
HubSetups == { << >>, << <<"user_agent", "custom-agent/1.0">> >> }

\* a call builder that has just been created and not been run
InitCall ==
    /\ method \in Methods
    /\ self = NewCall(FirstPath)
    /\ calls = 0
    /\ scopeOps = << >>
    /\ paramOps = << >>
    /\ params = << >>
    /\ url = << >>
    /\ token = None
    /\ request = NoRequest
    /\ retry = NoRetry
    /\ attempts = 0
    /\ asked = {}
    /\ hookArgs = NoArgs
    /\ givenScopes = {}
    /\ response = NoResponse
    /\ responses = << >>
    /\ trace = << >>
    /\ result = NoResult

\* no GoogleTypeDate under way
NoDate == [kind |-> "none"]
NoJson == << >>
DateOff ==
    /\ date = NoDate
    /\ json = NoJson
    /\ decoded = NoDate

\* no CLI process
NoMatches == [sub |-> "none", v |-> << >>, present |-> {}]
NoCall == [kind |-> "none"]
CliOff ==
    /\ matches = NoMatches
    /\ cliPc = "off"
    /\ engineNew = NoResult
    /\ cliCall = NoCall
    /\ apiCalls = 0
    /\ doitResult = NoResult
    /\ stderr = << >>
    /\ exitStatus = None

Init ==
    /\ CliOff
    /\ DateOff
    /\ \E setup \in HubSetups :
          /\ hub = RunHubSetters(HubNew, << >>, setup).hub
          /\ hubOps = RunHubSetters(HubNew, << >>, setup).ops
    /\ pc = "build"
    /\ InitCall

\* the hub right after ChromeManagement::new
InitHub ==
    /\ CliOff
    /\ DateOff
    /\ hub = HubNew
    /\ hubOps = << >>
    /\ pc = "hub"
    /\ InitCall

\* hub.user_agent(v) / hub.base_url(v) / hub.root_url(v)
SetHub(setter) ==
    /\ pc = "hub"
    /\ Len(hubOps) < MaxHubCalls
    /\ \E v \in HubSetterValues(setter) :
          /\ hub' = HubSetter(hub, setter, v).hub
          /\ hubOps' = Append(hubOps, HubOp(hub, setter, v))
    /\ UNCHANGED <<cliVars, dateVars, builderVars, doitVars>>

UserAgent == SetHub("user_agent")
BaseUrl == SetHub("base_url")
RootUrl == SetHub("root_url")

NextHub == UserAgent \/ BaseUrl \/ RootUrl

SpecHub == InitHub /\ [][NextHub]_vars

----------------------------------------------------------------------------
(* Builder setters *)

Building == pc = "build" /\ calls < MaxBuilderCalls

\* variant: a key that is present keeps its value
MapInsertKeepFirst(map, k, v) ==
    [x \in (DOMAIN map) \cup {k} |-> IF x \in DOMAIN map THEN map[x] ELSE v]

\* HashMap::insert: the map keeps one value per key
MapInsert(map, k, v) ==
    [x \in (DOMAIN map) \cup {k} |-> IF x = k THEN v ELSE map[x]]

\* name(new_value) / parent(new_value)
SetPath ==
    /\ Building
    /\ \E v \in PathValues : self' = [self EXCEPT !._path = v]
    /\ calls' = calls + 1
    /\ UNCHANGED <<cliVars, dateVars, hub, hubOps, paramOps, method, scopeOps, doitVars>>

\* read_mask / page_token / page_size / filter of the list call
SetOptional ==
    /\ Building
    /\ method = DeviceList
    /\ \/ self' = [self EXCEPT !._read_mask = Some(<<"f">>)]
       \/ self' = [self EXCEPT !._page_token = Some(<<"t">>)]
       \/ self' = [self EXCEPT !._page_size = Some(5)]
       \/ self' = [self EXCEPT !._filter = Some(<<"x">>)]
    /\ calls' = calls + 1
    /\ UNCHANGED <<cliVars, dateVars, hub, hubOps, paramOps, method, scopeOps, doitVars>>

\* delegate(new_value)
SetDelegate ==
    /\ Building
    /\ \E d \in Delegates : self' = [self EXCEPT !._delegate = d]
    /\ calls' = calls + 1
    /\ UNCHANGED <<cliVars, dateVars, hub, hubOps, paramOps, method, scopeOps, doitVars>>

\* param(name, value)
Param ==
    /\ Building
    /\ \E a \in ParamArgs :
          /\ self' = [self EXCEPT !._additional_params = MapInsert(@, a[1], a[2])]
          /\ paramOps' = Append(paramOps, a)
    /\ calls' = calls + 1
    /\ UNCHANGED <<cliVars, dateVars, hub, hubOps, method, scopeOps, doitVars>>

\* add_scope(scope)
AddScope ==
    /\ Building
    /\ \E s \in CallerScopes : self' = [self EXCEPT !._scopes = @ \cup {s}]
    /\ scopeOps' = Append(scopeOps, "add")
    /\ calls' = calls + 1
    /\ UNCHANGED <<cliVars, dateVars, hub, hubOps, paramOps, method, doitVars>>

\* add_scopes(scopes); an empty iterator adds nothing
AddScopes ==
    /\ Building
    /\ \E S \in SUBSET CallerScopes :
          /\ self' = [self EXCEPT !._scopes = @ \cup S]
          /\ scopeOps' = IF S = {} THEN scopeOps ELSE Append(scopeOps, "add")
    /\ calls' = calls + 1
    /\ UNCHANGED <<cliVars, dateVars, hub, hubOps, paramOps, method, doitVars>>

\* clear_scopes()
ClearScopes ==
    /\ Building
    /\ self' = [self EXCEPT !._scopes = {}]
    /\ scopeOps' = Append(scopeOps, "clear")
    /\ calls' = calls + 1
    /\ UNCHANGED <<cliVars, dateVars, hub, hubOps, paramOps, method, doitVars>>

----------------------------------------------------------------------------
(* client::url::Params, as doit uses it *)

\* Params::push
Push(ps, k, v) == Append(ps, <<k, v>>)

\* the orders in which a HashMap of these keys can be iterated
IterOrders(keys) ==
    {o \in [1..Cardinality(keys) -> keys] : \A i, j \in DOMAIN o : o[i] = o[j] => i = j}

\* Params::extend(self._additional_params.iter()), for one iteration order
Extend(ps, map, order) == ps \o [i \in DOMAIN order |-> <<order[i], map[order[i]]>>]

\* Params::get: the value of the first parameter of that name
RECURSIVE Get(_, _)
Get(ps, k) ==
    IF ps = << >> THEN None
    ELSE IF Head(ps)[1] = k THEN Some(Head(ps)[2]) ELSE Get(Tail(ps), k)

\* percent_encode(value, DEFAULT_ENCODE_SET), character by character, for the
\* characters path values are made of here
PercentEncodeChar(c) ==
    CASE c = " " -> "%20"
      [] c = "#" -> "%23"
      [] c = "<" -> "%3C"
      [] c = ">" -> "%3E"
      [] c = "?" -> "%3F"
      [] c = "{" -> "%7B"
      [] c = "}" -> "%7D"
      [] OTHER -> c

PercentEncode(v) == [i \in DOMAIN v |-> PercentEncodeChar(v[i])]

\* Params::uri_replacement(url, param, from, true) for a {+...} placeholder:
\* every piece equal to the placeholder is replaced by the encoded value
RECURSIVE UriReplacement(_, _, _, _)
UriReplacement(u, ps, param, from) ==
    IF u = << >> THEN << >>
    ELSE LET found == Get(ps, param)
             subst == IF found = None THEN << >> ELSE PercentEncode(found[1])
         IN  (IF Head(u) = from THEN subst ELSE <<Head(u)>>)
                \o UriReplacement(Tail(u), ps, param, from)

\* Params::remove_params
RemoveParams(ps, names) == SelectSeq(ps, LAMBDA p : p[1] \notin names)

\* form_urlencoded::byte_serialize, character by character, for the
\* characters parameter values are made of here
FormEncodeChar(c) ==
    CASE c = "&" -> "%26"
      [] c = "=" -> "%3D"
      [] c = " " -> "+"
      [] c = "/" -> "%2F"
      [] OTHER -> c

FormEncode(v) == [i \in DOMAIN v |-> FormEncodeChar(v[i])]

\* the query string of Url::parse_with_params: name=value pairs joined by &,
\* each value form-encoded
RECURSIVE QueryString(_)
QueryString(ps) ==
    IF ps = << >> THEN << >>
    ELSE <<Head(ps)[1], "=">> \o FormEncode(Head(ps)[2])
            \o (IF Tail(ps) = << >> THEN << >> ELSE <<"&">>)
            \o QueryString(Tail(ps))

\* Params::parse_with_url: the url, then the parameters as its query
ParseWithUrl(ps, u) == u \o <<"?">> \o QueryString(ps)

\* i32::to_string of the page sizes used here
IntToString(n) == IF n = 5 THEN <<"5">> ELSE <<"0">>

----------------------------------------------------------------------------
(* doit(): begin, FieldClash check, parameters and URL *)

\* let dlg = self._delegate.unwrap_or(&mut dd)
Dlg(b) == IF b._delegate = NoDelegate THEN "DefaultDelegate" ELSE b._delegate

\* the first entry of the field list that is a key of the additional parameters
ClashingFields(m, b) ==
    {i \in DOMAIN Fields(m) : Fields(m)[i] \in DOMAIN b._additional_params}

FirstClash(m, b) ==
    Fields(m)[CHOOSE i \in ClashingFields(m, b) : \A j \in ClashingFields(m, b) : i <= j]

\* the typed parameters pushed before the additional ones
PushOptional(ps, k, opt) == IF opt = None THEN ps ELSE Push(ps, k, opt[1])

TypedParams(m, b) ==
    LET p0 == Push(<< >>, PathParam(m), b._path)
        p1 == PushOptional(p0, "readMask", b._read_mask)
        p2 == PushOptional(p1, "pageToken", b._page_token)
        p3 == PushOptional(p2, "pageSize",
                           IF b._page_size = None THEN None
                           ELSE Some(IntToString(b._page_size[1])))
        p4 == PushOptional(p3, "filter", b._filter)
    IN  IF m = AndroidGet THEN p0 ELSE p4

\* variant: the parameters without the trailing push of alt
AllParamsNoAlt(m, b, order) ==
    Extend(TypedParams(m, b), b._additional_params, order)

\* params after extend and push("alt", "json")
AllParams(m, b, order) ==
    Push(Extend(TypedParams(m, b), b._additional_params, order), "alt", <<"j", "s", "o", "n">>)

\* variant: the path parameter is left among the query parameters
BuildUrlKeepPath(m, h, ps) ==
    ParseWithUrl(ps,
                 UriReplacement(<<h._base_url>> \o UrlTemplate(m), ps, PathParam(m),
                                "{+" \o PathParam(m) \o "}"))

\* the url after the placeholder replacement and parse_with_url
BuildUrl(m, h, ps) ==
    ParseWithUrl(RemoveParams(ps, {PathParam(m)}),
                 UriReplacement(<<h._base_url>> \o UrlTemplate(m), ps, PathParam(m),
                                "{+" \o PathParam(m) \o "}"))

\* variant: the default scope is inserted whatever the set holds
EffectiveScopesWithDefault(m, scopes) == scopes \cup {DefaultScope(m)}

\* if self._scopes.is_empty() { insert the default scope }
EffectiveScopes(m, scopes) == IF scopes = {} THEN {DefaultScope(m)} ELSE scopes

\* variant: the delegate is told of a success whatever the outcome
FinishedAlwaysTrue(ok) == "finished(true)"

Finished(ok) == IF ok THEN "finished(true)" ELSE "finished(false)"

\* doit() with a clashing additional parameter
DoitFieldClash ==
    /\ pc = "build"
    /\ ClashingFields(method, self) # {}
    /\ trace' = trace \o <<"begin", Finished(FALSE)>>
    /\ result' = [kind |-> "FieldClash", field |-> FirstClash(method, self)]
    /\ pc' = "done"
    /\ givenScopes' = self._scopes
    /\ calls' = 0
    /\ UNCHANGED <<cliVars, dateVars, hub, hubOps, paramOps, method, self, scopeOps, params, url, token, request, retry,
                   attempts, asked, hookArgs, response, responses>>

\* doit() up to the loop
DoitBegin ==
    /\ pc = "build"
    /\ ClashingFields(method, self) = {}
    /\ \E order \in IterOrders(DOMAIN self._additional_params) :
          /\ params' = RemoveParams(AllParams(method, self, order), {PathParam(method)})
          /\ url' = BuildUrl(method, hub, AllParams(method, self, order))
    /\ self' = [self EXCEPT !._scopes = EffectiveScopes(method, @)]
    /\ trace' = trace \o <<"begin">>
    /\ pc' = "token"
    /\ givenScopes' = self._scopes
    /\ calls' = 0
    /\ UNCHANGED <<cliVars, dateVars, hub, hubOps, paramOps, method, scopeOps, token, request, retry, attempts,
                   asked, hookArgs, response, responses, result>>

----------------------------------------------------------------------------
(* The collaborators: token provider, delegate, transport *)

\* hub.auth.get_token answers Ok(Some(token)), Ok(None) or Err
ProviderAnswers ==
    { [ok |-> TRUE, token |-> Some(ProviderToken)],
      [ok |-> TRUE, token |-> None],
      [ok |-> FALSE, token |-> None] }

\* client::Retry: Abort, or After(duration)
Abort == [kind |-> "Abort", d |-> "-"]
After(d) == [kind |-> "After", d |-> d]
Durations == {"100ms"}
RetryAnswers == {Abort} \cup {After(d) : d \in Durations}

\* client::DefaultDelegate: its hooks never ask for a retry and hand the
\* token error back
DefaultRetry == {Abort}
DefaultToken == { [ok |-> FALSE, token |-> None] }

\* what dlg.token(e) may answer
TokenHook(d) ==
    IF d = "DefaultDelegate" THEN DefaultToken
    ELSE { [ok |-> TRUE, token |-> Some(DelegateToken)],
           [ok |-> TRUE, token |-> None],
           [ok |-> FALSE, token |-> None] }

\* what dlg.http_error(&err) may answer
HttpErrorHook(d) ==
    CASE d = "DefaultDelegate" -> DefaultRetry
      [] d = "RetryingDelegate" -> RetryAnswers \ {Abort}
      [] OTHER -> RetryAnswers

\* what dlg.http_failure(&response, server_response) may answer
HttpFailureHook(d) ==
    CASE d = "DefaultDelegate" -> DefaultRetry
      [] d = "RetryingDelegate" -> RetryAnswers \ {Abort}
      [] OTHER -> RetryAnswers

\* response statuses and bodies the transport delivers
Statuses == {200, 299, 300}
BodyError == "{'error':{'code':404,'message':'not found'}}"
BodyObject == "{'appId':'x'}"
BodyArray == "[1]"
BodyHtml == "<html>"
Bodies == {BodyError, BodyObject, BodyArray, BodyHtml}

\* StatusCode::is_success
IsSuccess(status) == status >= 200 /\ status < 300

\* json::from_str::<serde_json::Value>(body).ok()
JsonValue(body) ==
    CASE body = BodyError -> Some([type |-> "object", members |-> {"error"}])
      [] body = BodyObject -> Some([type |-> "object", members |-> {"appId"}])
      [] body = BodyArray -> Some([type |-> "array", members |-> {}])
      [] OTHER -> None

\* the members of the operation's response struct that occur in the bodies
SchemaFields(m) == IF m = AndroidGet THEN {"appId"} ELSE {"devices", "nextPageToken"}

\* variant: any JSON value decodes
DecodeAnyJson(m, body) ==
    LET v == JsonValue(body)
    IN  IF v # None THEN Some([set |-> v[1].members \cap SchemaFields(m)]) ELSE None

\* json::from_str::<T>(body) for the response struct T: every field of T is an
\* Option and unknown members are ignored, so a JSON object decodes and
\* nothing else does
Decode(m, body) ==
    LET v == JsonValue(body)
    IN  IF v # None /\ v[1].type = "object"
        THEN Some([set |-> v[1].members \cap SchemaFields(m)])
        ELSE None

----------------------------------------------------------------------------
(* doit(): the loop *)

\* get_token(scopes) succeeded
GetTokenOk ==
    /\ pc = "token"
    /\ attempts < MaxAttempts
    /\ \E a \in ProviderAnswers : a.ok /\ token' = a.token
    /\ attempts' = attempts + 1
    /\ asked' = asked \cup {self._scopes}
    /\ trace' = trace \o <<"get_token">>
    /\ pc' = "send"
    /\ UNCHANGED <<cliVars, dateVars, hub, hubOps, builderVars, params, url, request, retry, hookArgs,
                   givenScopes, response, responses, result>>

\* variant: a failed get_token ends the call without asking the delegate
GetTokenErrNoHook ==
    /\ pc = "token"
    /\ attempts < MaxAttempts
    /\ \E a \in ProviderAnswers : ~a.ok
    /\ attempts' = attempts + 1
    /\ asked' = asked \cup {self._scopes}
    /\ trace' = trace \o <<"get_token", "Err", Finished(FALSE)>>
    /\ pc' = "done"
    /\ result' = [kind |-> "MissingToken"]
    /\ UNCHANGED <<cliVars, dateVars, hub, hubOps, builderVars, params, url, token, request, retry, hookArgs,
                   givenScopes, response, responses>>

\* get_token(scopes) failed: dlg.token(e) supplies a token or ends the call
GetTokenErr ==
    /\ pc = "token"
    /\ attempts < MaxAttempts
    /\ \E a \in ProviderAnswers : ~a.ok
    /\ attempts' = attempts + 1
    /\ asked' = asked \cup {self._scopes}
    /\ \E t \in TokenHook(Dlg(self)) :
          IF t.ok
          THEN /\ token' = t.token
               /\ trace' = trace \o <<"get_token", "Err", "token">>
               /\ pc' = "send"
               /\ result' = result
          ELSE /\ token' = token
               /\ trace' = trace \o <<"get_token", "Err", "token", Finished(FALSE)>>
               /\ pc' = "done"
               /\ result' = [kind |-> "MissingToken"]
    /\ UNCHANGED <<cliVars, dateVars, hub, hubOps, builderVars, params, url, request, retry, hookArgs,
                   givenScopes, response, responses>>

\* variant: the request carries the user agent the hub is created with
BuildRequestFixedAgent(h, u, tok) ==
    [ sent          |-> TRUE,
      method        |-> "GET",
      uri           |-> u,
      user_agent    |-> HubNew._user_agent,
      authorization |-> IF tok = None THEN None ELSE Some("Bearer " \o tok[1]) ]

\* the request doit builds in one iteration
BuildRequest(h, u, tok) ==
    [ sent          |-> TRUE,
      method        |-> "GET",
      uri           |-> u,
      user_agent    |-> h._user_agent,
      authorization |-> IF tok = None THEN None ELSE Some("Bearer " \o tok[1]) ]

\* variant: the request is sent before the delegate hears of it
SendRequestHookAfter ==
    /\ pc = "send"
    /\ request' = BuildRequest(hub, url, token)
    /\ trace' = trace \o <<"request", "pre_request">>
    /\ pc' = "wait"
    /\ UNCHANGED <<cliVars, dateVars, hub, hubOps, builderVars, params, url, token, retry, attempts, asked,
                   hookArgs, givenScopes, response, responses, result>>

\* dlg.pre_request(), then client.request(request)
SendRequest ==
    /\ pc = "send"
    /\ request' = BuildRequest(hub, url, token)
    /\ trace' = trace \o <<"pre_request", "request">>
    /\ pc' = "wait"
    /\ UNCHANGED <<cliVars, dateVars, hub, hubOps, builderVars, params, url, token, retry, attempts, asked,
                   hookArgs, givenScopes, response, responses, result>>

\* variant: an error the hook does not retry starts the next iteration at
\* once instead of returning
RetryOrReturnNoReturn(r, hook, e) ==
    /\ retry' = r
    /\ trace' = trace \o <<hook>>
    /\ pc' = IF r.kind = "After" THEN "sleep" ELSE "token"
    /\ result' = result

\* variant: a hook that does not ask for a retry cancels the call
RetryOrReturnCancelled(r, hook, e) ==
    /\ retry' = r
    /\ IF r.kind = "After"
       THEN /\ trace' = trace \o <<hook>>
            /\ pc' = "sleep"
            /\ result' = result
       ELSE /\ trace' = trace \o <<hook, Finished(FALSE)>>
            /\ pc' = "done"
            /\ result' = [kind |-> "Cancelled"]

\* variant: the executor stops retrying at its own limit of iterations
RetryOrReturnBounded(r, hook, e) ==
    /\ retry' = r
    /\ IF r.kind = "After" /\ attempts < MaxAttempts
       THEN /\ trace' = trace \o <<hook>>
            /\ pc' = "sleep"
            /\ result' = result
       ELSE /\ trace' = trace \o <<hook, Finished(FALSE)>>
            /\ pc' = "done"
            /\ result' = e

\* variant: the hook's answer is ignored and the error returned
RetryOrReturnNoRetry(r, hook, e) ==
    /\ retry' = r
    /\ trace' = trace \o <<hook, Finished(FALSE)>>
    /\ pc' = "done"
    /\ result' = e

\* after a retry hook answered r: sleep and continue, or finish with error e
RetryOrReturn(r, hook, e) ==
    /\ retry' = r
    /\ IF r.kind = "After"
       THEN /\ trace' = trace \o <<hook>>
            /\ pc' = "sleep"
            /\ result' = result
       ELSE /\ trace' = trace \o <<hook, Finished(FALSE)>>
            /\ pc' = "done"
            /\ result' = e

\* req_result is Err(err)
RecvError ==
    /\ pc = "wait"
    /\ response' = [kind |-> "error"]
    /\ responses' = Append(responses, "error")
    /\ hookArgs' = [hook |-> "http_error"]
    /\ \E r \in HttpErrorHook(Dlg(self)) :
          RetryOrReturn(r, "http_error", [kind |-> "HttpError"])
    /\ request' = NoRequest
    /\ token' = None
    /\ UNCHANGED <<cliVars, dateVars, hub, hubOps, builderVars, params, url, attempts, asked, givenScopes>>

\* variant: a terminal non-2xx response is always a Failure
FailureResultRaw(status, body) ==
    [kind |-> "Failure", response |-> [status |-> status, body |-> body]]

\* the error doit returns for a terminal non-2xx response
FailureResult(status, body) ==
    IF JsonValue(body) # None
    THEN [kind |-> "BadRequest", value |-> JsonValue(body)[1]]
    ELSE [kind |-> "Failure", response |-> [status |-> status, body |-> body]]

\* variant: the hook is called before the body is parsed
HttpFailureArgsUnparsed(status, body) ==
    [ hook            |-> "http_failure",
      response        |-> [status |-> status, body |-> body],
      server_response |-> None ]

\* what dlg.http_failure is called with: the response restored around the
\* captured body, and the body parsed as JSON if it parses
HttpFailureArgs(status, body) ==
    [ hook            |-> "http_failure",
      response        |-> [status |-> status, body |-> body],
      server_response |-> JsonValue(body) ]

\* req_result is Ok(res) and the status is not a success
RecvFailure ==
    /\ pc = "wait"
    /\ \E status \in Statuses, body \in Bodies :
          /\ ~IsSuccess(status)
          /\ response' = [kind |-> "response", status |-> status, body |-> body]
          /\ hookArgs' = HttpFailureArgs(status, body)
          /\ \E r \in HttpFailureHook(Dlg(self)) :
                RetryOrReturn(r, "http_failure", FailureResult(status, body))
    /\ responses' = Append(responses, "failure")
    /\ request' = NoRequest
    /\ token' = None
    /\ UNCHANGED <<cliVars, dateVars, hub, hubOps, builderVars, params, url, attempts, asked, givenScopes>>

\* req_result is Ok(res) with a success status: get_body_as_string reads the
\* body to its end and decodes it; the response returned with the decoded value
\* is the one whose body has been read, with nothing left in it
RecvSuccess ==
    /\ pc = "wait"
    /\ \E status \in Statuses, body \in Bodies :
          /\ IsSuccess(status)
          /\ response' = [kind |-> "response", status |-> status, body |-> body]
          /\ IF Decode(method, body) # None
             THEN /\ trace' = trace \o <<Finished(TRUE)>>
                  /\ result' = [kind |-> "Ok",
                                response |-> [status |-> status, body |-> ""],
                                decoded |-> Decode(method, body)[1]]
                  /\ hookArgs' = hookArgs
             ELSE /\ trace' = trace \o <<"response_json_decode_error">>
                  /\ result' = [kind |-> "JsonDecodeError", body |-> body]
                  /\ hookArgs' = [hook |-> "response_json_decode_error", body |-> body]
    /\ responses' = Append(responses, "success")
    /\ pc' = "done"
    /\ request' = NoRequest
    /\ token' = None
    /\ UNCHANGED <<cliVars, dateVars, hub, hubOps, builderVars, params, url, retry, attempts, asked,
                   givenScopes>>

\* variant: the URL is marked as a retry before the next iteration
SleepMarksRetry ==
    /\ pc = "sleep"
    /\ trace' = trace \o <<"sleep">>
    /\ retry' = NoRetry
    /\ hookArgs' = NoArgs
    /\ response' = NoResponse
    /\ url' = url \o <<"&", "retry">>
    /\ pc' = "token"
    /\ UNCHANGED <<cliVars, dateVars, hub, hubOps, builderVars, params, token, request, attempts, asked,
                   givenScopes, responses, result>>

\* variant: after the sleep the request is sent again with the token at hand
SleepKeepToken ==
    /\ pc = "sleep"
    /\ trace' = trace \o <<"sleep">>
    /\ retry' = NoRetry
    /\ hookArgs' = NoArgs
    /\ response' = NoResponse
    /\ pc' = "send"
    /\ UNCHANGED <<cliVars, dateVars, hub, hubOps, builderVars, params, url, token, request, attempts, asked,
                   givenScopes, responses, result>>

\* sleep(d) is over: continue with the next iteration
Sleep ==
    /\ pc = "sleep"
    /\ trace' = trace \o <<"sleep">>
    /\ retry' = NoRetry
    /\ hookArgs' = NoArgs
    /\ response' = NoResponse
    /\ pc' = "token"
    /\ UNCHANGED <<cliVars, dateVars, hub, hubOps, builderVars, params, url, token, request, attempts, asked,
                   givenScopes, responses, result>>

----------------------------------------------------------------------------

Next ==
    \/ SetPath
    \/ SetOptional
    \/ SetDelegate
    \/ Param
    \/ AddScope
    \/ AddScopes
    \/ ClearScopes
    \/ DoitFieldClash
    \/ DoitBegin
    \/ GetTokenOk
    \/ GetTokenErr
    \/ SendRequest
    \/ RecvError
    \/ RecvFailure
    \/ RecvSuccess
    \/ Sleep

\* the steps of doit(): once called, the future is driven to completion, and
\* the token provider, the transport and the sleep each complete
DoitStep ==
    \/ DoitFieldClash
    \/ DoitBegin
    \/ GetTokenOk
    \/ GetTokenErr
    \/ SendRequest
    \/ RecvError
    \/ RecvFailure
    \/ RecvSuccess
    \/ Sleep

\* the same program with doit() running to completion: every builder function
\* remains available to the caller, and a call of doit() that has a step to
\* take takes it
SpecLive == Init /\ [][Next]_vars /\ WF_vars(DoitStep)

----------------------------------------------------------------------------
(* GoogleTypeDate and its JSON form (derive Serialize, Deserialize) *)

\* the largest day / month number a date is built from
MaxDateInt == 12

\* the i32 values of a field: negative, zero, small, and a four-digit year
DateInts == ((-1)..MaxDateInt) \cup {2024}

\* day, month and year are each Option<i32>
Dates == [day : {None} \cup {Some(n) : n \in DateInts},
          month : {None} \cup {Some(n) : n \in DateInts},
          year : {None} \cup {Some(n) : n \in DateInts}]

\* the fields in the order of declaration, which is the order they are written in
DateFields == <<"day", "month", "year">>

Digit(d) ==
    CASE d = 0 -> "0" [] d = 1 -> "1" [] d = 2 -> "2" [] d = 3 -> "3" [] d = 4 -> "4"
      [] d = 5 -> "5" [] d = 6 -> "6" [] d = 7 -> "7" [] d = 8 -> "8" [] d = 9 -> "9"

\* an i32 as JSON number text, digit by digit
RECURSIVE Itoa(_)
Itoa(n) ==
    IF n < 0 THEN <<"-">> \o Itoa(0 - n)
    ELSE IF n < 10 THEN <<Digit(n)>>
    ELSE Itoa(n \div 10) \o <<Digit(n % 10)>>

\* JSON number text as an i32
RECURSIVE Atoi(_)
Atoi(text) ==
    IF Head(text) = "-" THEN 0 - Atoi(Tail(text))
    ELSE LET last == CHOOSE d \in 0..9 : Digit(d) = text[Len(text)]
         IN  IF Len(text) = 1 THEN last
             ELSE 10 * Atoi(SubSeq(text, 1, Len(text) - 1)) + last

\* Serialize for Option<i32>: None is written as null, Some(n) as the number
SerializeField(name, v) ==
    <<name, ":">> \o (IF v = None THEN <<"null">> ELSE Itoa(v[1]))

\* the derived Serialize: an object with every field, in declaration order
SerializeDate(d) ==
    <<"{">> \o SerializeField("day", d.day)
        \o <<",">> \o SerializeField("month", d.month)
        \o <<",">> \o SerializeField("year", d.year) \o <<"}">>

\* the tokens of the value that follows key number k of the text
ValueAt(text, k) ==
    LET stop == CHOOSE j \in (k + 2)..Len(text) :
                   /\ text[j] \in {",", "}"}
                   /\ \A i \in (k + 2)..(j - 1) : text[i] \notin {",", "}"}
    IN  SubSeq(text, k + 2, stop - 1)

\* variant: the field is a plain i32 with a default, so that a missing or null
\* value reads as 0
DeserializeFieldDefault(text, name) ==
    LET keys == {k \in DOMAIN text : text[k] = name}
    IN  IF keys = {} THEN Some(0)
        ELSE LET v == ValueAt(text, CHOOSE k \in keys : TRUE)
             IN  IF v = <<"null">> THEN Some(0) ELSE Some(Atoi(v))

\* Deserialize for a field of type Option<i32>: a missing key and null are
\* None, a number n is Some(n)
DeserializeField(text, name) ==
    LET keys == {k \in DOMAIN text : text[k] = name}
    IN  IF keys = {} THEN None
        ELSE LET v == ValueAt(text, CHOOSE k \in keys : TRUE)
             IN  IF v = <<"null">> THEN None ELSE Some(Atoi(v))

\* the derived Deserialize
DeserializeDate(text) ==
    [day   |-> DeserializeField(text, "day"),
     month |-> DeserializeField(text, "month"),
     year  |-> DeserializeField(text, "year")]

\* a GoogleTypeDate value about to be serialized
InitDate ==
    /\ CliOff
    /\ hub = HubNew
    /\ hubOps = << >>
    /\ pc = "hub"
    /\ InitCall
    /\ date \in Dates
    /\ json = NoJson
    /\ decoded = NoDate

\* serde_json::to_string(&date)
ToJson ==
    /\ date # NoDate
    /\ json = NoJson
    /\ json' = SerializeDate(date)
    /\ UNCHANGED <<cliVars, hub, hubOps, builderVars, doitVars, date, decoded>>

\* serde_json::from_str::<GoogleTypeDate>(&json)
FromJson ==
    /\ json # NoJson
    /\ decoded = NoDate
    /\ decoded' = DeserializeDate(json)
    /\ UNCHANGED <<cliVars, hub, hubOps, builderVars, doitVars, date, json>>

NextDate ==
    \/ ToJson
    \/ FromJson

SpecDate == InitDate /\ [][NextDate]_vars

\* the longest path-parameter value whose URL is built
MaxPathLen == 3

\* the characters such a value is made of: plain, kept by reserved
\* expansion, encoded by it, and the percent sign with two hex digits
PathChars == {"a", "/", " ", "?", "%", "4", "1"}

\* a builder for each such value, about to be sent through doit
InitUrl ==
    /\ CliOff
    /\ DateOff
    /\ hub = HubNew
    /\ hubOps = << >>
    /\ pc = "build"
    /\ method \in Methods
    /\ \E v \in SeqsUpTo(PathChars, MaxPathLen) : self = NewCall(v)
    /\ calls = 0
    /\ scopeOps = << >>
    /\ paramOps = << >>
    /\ params = << >>
    /\ url = << >>
    /\ token = None
    /\ request = NoRequest
    /\ retry = NoRetry
    /\ attempts = 0
    /\ asked = {}
    /\ hookArgs = NoArgs
    /\ givenScopes = {}
    /\ response = NoResponse
    /\ responses = << >>
    /\ trace = << >>
    /\ result = NoResult

\* doit up to the assembled URL, for every path-parameter value
NextUrl == DoitBegin

SpecUrl == InitUrl /\ [][NextUrl]_vars

Spec == Init /\ [][Next]_vars

----------------------------------------------------------------------------
(* The billingbudgets1-beta1 CLI: Engine::new, Engine::doit and main *)

\* -p arguments on a command line
MaxPArgs == 2

\* the method subcommands followed; none where the command line names
\* billing-accounts and no method of it, no-command where it names no command
CliMethods == {"budgets-get", "budgets-list"}
Subcommands == CliMethods \cup {"none", "no-command"}

\* -p arguments as typed, in pieces: a key, and after an equals sign a value
PArgs ==
    { <<"page-size", "=", "5">>, <<"page-size", "=", "x">>, <<"alt", "=", "media">>,
      <<"pretty-print", "=", "true">>, <<"quota-user", "=", "u">>,
      <<"bogus", "=", "1">>, <<"key">> }

\* the command lines followed; --debug is the only flag that may be present,
\* and -p is an argument of the method subcommands
CommandLines ==
    {m \in [sub : Subcommands, v : SeqsUpTo(PArgs, MaxPArgs), present : SUBSET {"debug"}] :
        m.sub \notin CliMethods => m.v = << >>}

\* ArgMatches::is_present
IsPresent(m, name) == name \in m.present

\* the global parameters of Engine.gp, and their names in the API (Engine.gpm)
Gp ==
    {"$-xgafv", "access-token", "alt", "callback", "fields", "key", "oauth-token",
     "pretty-print", "quota-user", "upload-type", "upload-protocol"}

\* variant: the key is handed to the call as it was typed
GpmIdentity(key) == key

Gpm(key) ==
    CASE key = "$-xgafv" -> "$.xgafv"
      [] key = "access-token" -> "access_token"
      [] key = "oauth-token" -> "oauth_token"
      [] key = "pretty-print" -> "prettyPrint"
      [] key = "quota-user" -> "quotaUser"
      [] key = "upload-type" -> "uploadType"
      [] key = "upload-protocol" -> "upload_protocol"
      [] OTHER -> key

\* parse_kv_arg(kv, err, false): the key, the value after the first equals
\* sign, and whether an InvalidKeyValueSyntax issue is pushed
ParseKvArg(kv) ==
    IF \A i \in DOMAIN kv : kv[i] # "="
    THEN [key |-> kv[1], value |-> None, bad |-> TRUE]
    ELSE IF Len(kv) <= 2
         THEN [key |-> kv[1], value |-> Some(""), bad |-> TRUE]
         ELSE [key |-> kv[1], value |-> Some(kv[3]), bad |-> FALSE]

\* arg_from_str(v, err, name, "int32") of the values used here: the number, or
\* the default and a ParseError issue
ArgFromStr(v, name) ==
    IF v = "5" THEN [value |-> 5, issues |-> << >>]
    ELSE [ value  |-> 0,
           issues |-> << [kind |-> "ParseError", name |-> name, value |-> v] >> ]

\* hub.billing_accounts().budgets_get(name) / budgets_list(parent)
NewCliCall(sub) ==
    [ kind               |-> sub,
      _page_token        |-> None,
      _page_size         |-> None,
      _additional_params |-> << >> ]

\* variant: a key that is no parameter is handed to the call like a global one
PArgLenient(sub, st, kv) ==
    LET p == ParseKvArg(kv)
    IN  [ call   |-> [st.call EXCEPT !._additional_params =
                         MapInsert(@, Gpm(p.key), IF p.value = None THEN "unset" ELSE p.value[1])],
          issues |-> st.issues ]

\* the body of the loop over the -p arguments: st is the call built and the
\* issues of err so far
PArg(sub, st, kv) ==
    LET p == ParseKvArg(kv)
        issues == IF p.bad
                  THEN Append(st.issues, [kind |-> "InvalidKeyValueSyntax", key |-> p.key])
                  ELSE st.issues
    IN  CASE sub = "budgets-list" /\ p.key = "page-token" ->
               [ call   |-> [st.call EXCEPT !._page_token =
                                Some(IF p.value = None THEN "" ELSE p.value[1])],
                 issues |-> issues ]
          [] sub = "budgets-list" /\ p.key = "page-size" ->
               LET parsed == IF p.value = None THEN [value |-> 0, issues |-> << >>]
                             ELSE ArgFromStr(p.value[1], "page-size")
               IN  [ call   |-> [st.call EXCEPT !._page_size = Some(parsed.value)],
                     issues |-> issues \o parsed.issues ]
          [] OTHER ->
               IF p.key \in Gp
               THEN [ call   |-> [st.call EXCEPT !._additional_params =
                                     MapInsert(@, Gpm(p.key),
                                               IF p.value = None THEN "unset" ELSE p.value[1])],
                      issues |-> issues ]
               ELSE [ call   |-> st.call,
                      issues |-> Append(issues, [kind |-> "UnknownParameter", key |-> p.key]) ]

\* the loop over the -p arguments
RECURSIVE PArgLoop(_, _, _)
PArgLoop(sub, st, kvs) ==
    IF kvs = << >> THEN st
    ELSE PArgLoop(sub, PArg(sub, st, Head(kvs)), Tail(kvs))

\* _billing_accounts_budgets_get / _list up to the dry_run test: the call
\* and the issues pushed to err
MethodCall(m) ==
    PArgLoop(m.sub, [call |-> NewCliCall(m.sub), issues |-> << >>], m.v)

\* the issues Engine::_doit has collected in err after the subcommand match
DoitIssues(m) ==
    IF m.sub \in CliMethods THEN MethodCall(m).issues
    ELSE IF m.sub = "none"
    THEN << [kind |-> "MissingMethodError", key |-> "billing-accounts"] >>
    ELSE << [kind |-> "MissingCommandError", key |-> "-"] >>

\* InvalidOptionsError::new() and InvalidOptionsError::single(issue, code)
InvalidOptionsNew == [issues |-> << >>, exit_code |-> 1]
InvalidOptionsSingle(issue, code) == [issues |-> <<issue>>, exit_code |-> code]

\* variant: the dry run reports no error whatever issues it has collected
EngineDoitForgetsIssues(m, dry_run) ==
    IF dry_run THEN [kind |-> "Err", err |-> None] ELSE [kind |-> "Ok"]

\* what Engine::_doit(dry_run) returns: the dry run always Err, of the issues
\* collected if there are any; the real run always Ok
EngineDoit(m, dry_run) ==
    IF dry_run
    THEN [kind |-> "Err",
          err  |-> IF Len(DoitIssues(m)) > 0
                   THEN Some([InvalidOptionsNew EXCEPT !.issues = DoitIssues(m)])
                   ELSE None]
    ELSE [kind |-> "Ok"]

\* Engine::new: the configuration directory, the application secret, the
\* authenticator, whose build() result is unwrapped, then the dry run
EngineNewResult(m, configDir, secret, auth) ==
    IF ~configDir
    THEN [kind |-> "Err",
          err |-> InvalidOptionsSingle([kind |-> "ConfigurationError", key |-> "folder"], 3)]
    ELSE IF ~secret
    THEN [kind |-> "Err",
          err |-> InvalidOptionsSingle([kind |-> "ConfigurationError", key |-> "secret"], 4)]
    ELSE IF ~auth
    THEN [kind |-> "panic", error |-> "unwrap"]
    ELSE LET r == EngineDoit(m, TRUE)
         IN  IF r.kind = "Ok" THEN [kind |-> "panic", error |-> "unreachable"]
             ELSE IF r.err # None THEN [kind |-> "Err", err |-> r.err[1]]
             ELSE [kind |-> "Ok"]

\* what _doit writes to standard error: the usage, if no method or no
\* command is named
DoitUsage(m) ==
    IF m.sub \in CliMethods THEN << >> ELSE << [what |-> "usage", rendering |-> "{}"] >>

\* the library is not modelled while the CLI runs
libVars == <<hub, hubOps, builderVars, doitVars, dateVars>>

\* a CLI process that has parsed its command line
InitCli ==
    /\ DateOff
    /\ matches \in CommandLines
    /\ cliPc = "main"
    /\ engineNew = NoResult
    /\ cliCall = NoCall
    /\ apiCalls = 0
    /\ doitResult = NoResult
    /\ stderr = << >>
    /\ exitStatus = None
    /\ hub = HubNew
    /\ hubOps = << >>
    /\ pc = "hub"
    /\ InitCall

\* main: Engine::new(matches, connector)
EngineNew ==
    /\ cliPc = "main"
    /\ \E configDir, secret, auth \in BOOLEAN :
          LET r == EngineNewResult(matches, configDir, secret, auth)
              dryRun == configDir /\ secret /\ auth
          IN  /\ engineNew' = r
              /\ stderr' = (IF dryRun THEN stderr \o DoitUsage(matches) ELSE stderr)
                              \o (IF r.kind = "panic"
                                  THEN << [what |-> "panic", rendering |-> "{}"] >>
                                  ELSE << >>)
              /\ exitStatus' = IF r.kind = "panic" THEN Some(101) ELSE exitStatus
              /\ cliPc' = IF r.kind = "panic" THEN "exit" ELSE "new"
    /\ UNCHANGED <<matches, cliCall, apiCalls, doitResult, libVars>>

\* main: Engine::new returned Err(err)
MainInvalidOptions ==
    /\ cliPc = "new"
    /\ engineNew.kind = "Err"
    /\ exitStatus' = Some(engineNew.err.exit_code)
    /\ stderr' = Append(stderr, [what |-> "InvalidOptionsError", rendering |-> "{}"])
    /\ cliPc' = "exit"
    /\ UNCHANGED <<matches, engineNew, cliCall, apiCalls, doitResult, libVars>>

\* the parameters the API's doit checks the additional parameters against
CliFields(sub) ==
    IF sub = "budgets-list" THEN {"alt", "parent", "pageToken", "pageSize"}
    ELSE {"alt", "name"}

\* what call.doit() can return
ApiErrors == {"HttpError", "BadRequest"}
ApiOutcomes(call) ==
    IF (DOMAIN call._additional_params) \cap CliFields(call.kind) # {}
    THEN {"FieldClash"}
    ELSE {"Ok"} \cup ApiErrors

\* Engine::doit has been entered: _doit(false) builds the call once more; its
\* assert on err.issues holds after a dry run without issues
DoitEntered ==
    /\ cliPc = "new"
    /\ engineNew.kind = "Ok"
    /\ MethodCall(matches).issues = << >>
    /\ cliCall' = MethodCall(matches).call

\* engine.doit(): writer_from_opts fails
EngineDoitIoError ==
    /\ DoitEntered
    /\ doitResult' = [kind |-> "IoError", error |-> "-"]
    /\ cliPc' = "returned"
    /\ UNCHANGED <<matches, engineNew, apiCalls, stderr, exitStatus, libVars>>

\* engine.doit(): call.doit() returns an error
EngineDoitApiError ==
    /\ DoitEntered
    /\ apiCalls' = apiCalls + 1
    /\ \E e \in ApiOutcomes(MethodCall(matches).call) \ {"Ok"} :
          doitResult' = [kind |-> "ApiError", error |-> e]
    /\ cliPc' = "returned"
    /\ UNCHANGED <<matches, engineNew, stderr, exitStatus, libVars>>

\* engine.doit(): call.doit() returns the response, which is written out
EngineDoitOk ==
    /\ DoitEntered
    /\ apiCalls' = apiCalls + 1
    /\ "Ok" \in ApiOutcomes(MethodCall(matches).call)
    /\ doitResult' = [kind |-> "Ok", error |-> "-"]
    /\ cliPc' = "returned"
    /\ UNCHANGED <<matches, engineNew, stderr, exitStatus, libVars>>

\* why engine.doit() can panic: _doit(false) returned Err (unreachable!), the
\* real run collected an issue (the assert before the call), or the response
\* could not be written (the unwrap after it)
PanicReasons(m) ==
    IF EngineDoit(m, FALSE).kind # "Ok" THEN {"unreachable"}
    ELSE IF MethodCall(m).issues # << >> THEN {"assert"}
    ELSE IF "Ok" \in ApiOutcomes(MethodCall(m).call) THEN {"unwrap"}
    ELSE {}

\* engine.doit() panics, and the process ends with the status of a panic
EngineDoitPanic ==
    /\ cliPc = "new"
    /\ engineNew.kind = "Ok"
    /\ cliCall' = MethodCall(matches).call
    /\ \E why \in PanicReasons(matches) :
          /\ doitResult' = [kind |-> "panic", error |-> why]
          /\ apiCalls' = IF why = "unwrap" THEN apiCalls + 1 ELSE apiCalls
    /\ stderr' = Append(stderr, [what |-> "panic", rendering |-> "{}"])
    /\ exitStatus' = Some(101)
    /\ cliPc' = "exit"
    /\ UNCHANGED <<matches, engineNew, libVars>>

\* let debug = matches.is_present("adebug")
Debug(m) == IsPresent(m, "adebug")

\* how main renders a DoitError on standard error
Rendering(m, e) ==
    IF e.kind = "ApiError" /\ Debug(m) THEN "{:#?}" ELSE "{}"

\* variant: a DoitError is reported and the exit status left as it is
MainDoitErrKeepStatus ==
    /\ cliPc = "returned"
    /\ doitResult.kind \in {"IoError", "ApiError"}
    /\ exitStatus' = Some(0)
    /\ stderr' = Append(stderr, [what |-> doitResult.kind,
                                 rendering |-> Rendering(matches, doitResult)])
    /\ cliPc' = "exit"
    /\ UNCHANGED <<matches, engineNew, cliCall, apiCalls, doitResult, libVars>>

\* main: engine.doit() returned Err(doit_err)
MainDoitErr ==
    /\ cliPc = "returned"
    /\ doitResult.kind \in {"IoError", "ApiError"}
    /\ exitStatus' = Some(1)
    /\ stderr' = Append(stderr, [what |-> doitResult.kind,
                                 rendering |-> Rendering(matches, doitResult)])
    /\ cliPc' = "exit"
    /\ UNCHANGED <<matches, engineNew, cliCall, apiCalls, doitResult, libVars>>

\* main: engine.doit() returned Ok(())
MainDoitOk ==
    /\ cliPc = "returned"
    /\ doitResult.kind = "Ok"
    /\ exitStatus' = Some(0)
    /\ cliPc' = "exit"
    /\ UNCHANGED <<matches, engineNew, cliCall, apiCalls, doitResult, stderr, libVars>>

NextCli ==
    \/ EngineNew
    \/ MainInvalidOptions
    \/ EngineDoitIoError
    \/ EngineDoitApiError
    \/ EngineDoitOk
    \/ EngineDoitPanic
    \/ MainDoitErr
    \/ MainDoitOk

SpecCli == InitCli /\ [][NextCli]_vars

----------------------------------------------------------------------------
(* Properties *)

Count(seq, e) == Cardinality({i \in DOMAIN seq : seq[i] = e})
Last(seq) == seq[Len(seq)]
Returned == pc = "done"
Requests == Count(trace, "request")
Acquisitions == Count(trace, "get_token")

\* the parameter names each operation has a typed setter or slot for, and alt
StaticNames ==
    IF method = AndroidGet THEN {"alt", "name"}
    ELSE {"alt", "parent", "readMask", "pageToken", "pageSize", "filter"}

Clashes == (DOMAIN self._additional_params) \cap StaticNames

\* C1: once doit() has been called with an additional parameter named like a
\* statically-known parameter (alt included), it has returned FieldClash of one
\* of the clashing keys, and no token was asked for and no request was sent.
C1_FieldClash ==
    (pc # "build" /\ Clashes # {}) =>
        /\ Returned
        /\ result.kind = "FieldClash"
        /\ result.field \in Clashes
        /\ Acquisitions = 0 /\ asked = {} /\ attempts = 0
        /\ Requests = 0 /\ responses = << >>

C1_Witness ==
    /\ Returned
    /\ method = DeviceList
    /\ DOMAIN self._additional_params = {"pageSize", "key"}
    /\ result.kind = "FieldClash"

\* the request outcomes so far are n transport errors and then a 2xx response
\* with a body of the response type
ErrorsThenSuccess ==
    /\ responses # << >>
    /\ Last(responses) = "success"
    /\ \A i \in 1..(Len(responses) - 1) : responses[i] = "error"
    /\ response.kind = "response" /\ response.body \in {BodyObject, BodyError}

\* C2: with a delegate whose http_error always answers Retry::After, N transport
\* errors followed by a successful response make doit() return Ok after exactly
\* N+1 requests, and no transport error ends the call; when the hook does not
\* answer Retry::After on the first transport error, doit() returns HttpError
\* after exactly one request.
C2_RetryCount ==
    /\ (Dlg(self) = "RetryingDelegate" /\ ErrorsThenSuccess) =>
          /\ Returned
          /\ result.kind = "Ok"
          /\ Requests = Len(responses)
          /\ Count(responses, "error") = Len(responses) - 1
    /\ (Dlg(self) = "RetryingDelegate" /\ responses # << >> /\ Last(responses) = "error") =>
          /\ result.kind # "HttpError"
          /\ Count(trace, "sleep") + (IF pc = "sleep" THEN 1 ELSE 0) = Len(responses)
    /\ (responses # << >> /\ responses[1] = "error" /\ Count(trace, "sleep") = 0
            /\ pc # "sleep") =>
          /\ Returned
          /\ result.kind = "HttpError"
          /\ Requests = 1
          /\ responses = <<"error">>

C2_Witness ==
    /\ Dlg(self) = "RetryingDelegate"
    /\ responses = <<"error", "success">>
    /\ result.kind = "Ok"
    /\ Requests = 2

C2_WitnessDefault ==
    /\ Dlg(self) = "DefaultDelegate"
    /\ responses = <<"error">>
    /\ result.kind = "HttpError"

\* C3: a 2xx response whose body does not decode into the response type ends
\* the call at once: doit() has returned JsonDecodeError with that body, the
\* response_json_decode_error hook was called once, with that body, as the last
\* event of the call, and there was one token acquisition and one request per
\* response, whichever delegate is installed.
C3_DecodeErrorTerminal ==
    /\ (responses # << >> /\ Last(responses) = "success"
            /\ response.body \in {BodyArray, BodyHtml}) =>
          /\ Returned
          /\ result.kind = "JsonDecodeError"
          /\ result.body = response.body
          /\ Count(trace, "response_json_decode_error") = 1
          /\ Last(trace) = "response_json_decode_error"
          /\ hookArgs = [hook |-> "response_json_decode_error", body |-> response.body]
          /\ Requests = Len(responses)
          /\ Acquisitions = Len(responses)
    /\ result.kind = "JsonDecodeError" =>
          /\ Last(responses) = "success"
          /\ response.body \in {BodyArray, BodyHtml}

C3_Witness ==
    /\ Returned
    /\ Dlg(self) = "RetryingDelegate"
    /\ responses = <<"failure", "success">>
    /\ response.body = BodyArray
    /\ result.kind = "JsonDecodeError"

\* C4: a terminal non-2xx response makes doit() return BadRequest with the
\* parsed value when the body is the JSON error envelope, Failure with the raw
\* response when the body is not JSON, and never any other kind of error.
C4_FailureKinds ==
    /\ (Returned /\ response.kind = "response" /\ Last(responses) = "failure") =>
          /\ response.status \notin 200..299
          /\ retry = Abort
          /\ result.kind \in {"BadRequest", "Failure"}
          /\ response.body = BodyError =>
                /\ result.kind = "BadRequest"
                /\ result.value = [type |-> "object", members |-> {"error"}]
          /\ response.body = BodyHtml =>
                /\ result.kind = "Failure"
                /\ result.response = [status |-> response.status, body |-> BodyHtml]
    /\ result.kind \in {"BadRequest", "Failure"} =>
          Returned /\ response.kind = "response" /\ Last(responses) = "failure"

C4_Witness ==
    /\ Returned
    /\ response.kind = "response" /\ response.status = 300 /\ response.body = BodyHtml
    /\ result.kind = "Failure"

C4_WitnessBadRequest ==
    /\ Returned
    /\ response.kind = "response" /\ response.status = 300 /\ response.body = BodyError
    /\ result.kind = "BadRequest"

\* C5: after clear_scopes() with no later add_scope / add_scopes that adds a
\* scope, every token acquisition of doit() is made for the empty scope set.
C5_NoDefaultAfterClear ==
    (scopeOps # << >> /\ Last(scopeOps) = "clear") => asked \subseteq {{}}

\* C6: every token acquisition of doit() is made for the builder's scope set
\* when that set is not empty, and for exactly the operation's default scope
\* when no scope was ever added.
C6_ScopesAsked ==
    /\ attempts > 0 => asked # {}
    /\ \A S \in asked :
          /\ givenScopes # {} => S = givenScopes
          /\ Count(scopeOps, "add") = 0 => S = {DefaultScope(method)}

C6_Witness ==
    /\ Returned
    /\ method = AndroidGet
    /\ givenScopes = {ScopeReport}
    /\ asked = {{ScopeReport}}
    /\ Acquisitions = 2

\* C7: a failed token acquisition is followed by the delegate's token hook and
\* nothing else; after the hook either the request is prepared and sent with
\* the hook's token, or doit() has returned MissingToken with no request and no
\* retry hook in that iteration.
C7_TokenHook ==
    /\ \A i \in DOMAIN trace :
          /\ trace[i] = "Err" =>
                /\ i > 1 /\ trace[i - 1] = "get_token"
                /\ i < Len(trace) /\ trace[i + 1] = "token"
          /\ trace[i] = "token" =>
                /\ i > 1 /\ trace[i - 1] = "Err"
                /\ i = Len(trace) =>
                      pc = "send" /\ token \in {None, Some(DelegateToken)}
                /\ i < Len(trace) =>
                      trace[i + 1] \in {"pre_request", Finished(FALSE)}
                /\ (i < Len(trace) /\ trace[i + 1] = "pre_request") =>
                      /\ i + 2 <= Len(trace) /\ trace[i + 2] = "request"
                      /\ i + 2 = Len(trace) =>
                            /\ pc = "wait"
                            /\ token \in {None, Some(DelegateToken)}
                            /\ request.sent
                            /\ request.authorization =
                                  IF token = None THEN None
                                  ELSE Some("Bearer delegate-token")
                /\ (i < Len(trace) /\ trace[i + 1] = Finished(FALSE)) =>
                      /\ i + 1 = Len(trace)
                      /\ Returned
                      /\ result.kind = "MissingToken"
    /\ result.kind = "MissingToken" =>
          /\ Returned
          /\ Len(trace) >= 4
          /\ SubSeq(trace, Len(trace) - 3, Len(trace))
                = <<"get_token", "Err", "token", Finished(FALSE)>>
          /\ Requests = Acquisitions - 1
          /\ Requests = Len(responses)
          /\ Count(trace, "http_error") + Count(trace, "http_failure") = Len(responses)

C7_Witness ==
    /\ pc = "wait"
    /\ Len(trace) >= 3 /\ trace[Len(trace) - 2] = "token"
    /\ token = Some(DelegateToken)
    /\ request.authorization = Some("Bearer delegate-token")

C7_WitnessMissing ==
    /\ Returned
    /\ result.kind = "MissingToken"
    /\ Dlg(self) = "AnyDelegate"
    /\ Requests = 1

\* the events after which the loop goes on: a retry hook, then the sleep
RetryHooks == {"http_error", "http_failure"}

\* C8: the http_error hook is called once per transport error, right after the
\* request; on Retry::After doit() sleeps and then asks for a token again
\* before the next request, otherwise it has returned HttpError.
C8_HttpError ==
    /\ Count(trace, "http_error") = Count(responses, "error")
    /\ \A i \in DOMAIN trace :
          /\ trace[i] = "http_error" =>
                /\ i > 1 /\ trace[i - 1] = "request"
                /\ i = Len(trace) =>
                      pc = "sleep" /\ retry.kind = "After" /\ retry.d \in Durations
                /\ i < Len(trace) => trace[i + 1] \in {"sleep", Finished(FALSE)}
                /\ (i < Len(trace) /\ trace[i + 1] = Finished(FALSE)) =>
                      /\ i + 1 = Len(trace)
                      /\ result.kind = "HttpError"
                      /\ retry = Abort
          /\ trace[i] = "sleep" =>
                /\ i > 1 /\ trace[i - 1] \in RetryHooks
                /\ i = Len(trace) => pc = "token" /\ token = None
                /\ i < Len(trace) => trace[i + 1] = "get_token"
    /\ LET sent == {i \in DOMAIN trace : trace[i] = "request"}
       IN  \A i, j \in sent :
              i < j => \E k \in (i + 1)..(j - 1) : trace[k] = "get_token"
    /\ result.kind = "HttpError" =>
          /\ Returned
          /\ response = [kind |-> "error"]
          /\ Last(responses) = "error"
          /\ Len(trace) >= 2 /\ trace[Len(trace) - 1] = "http_error"

C8_Witness ==
    /\ pc = "wait"
    /\ responses = <<"error">>
    /\ Acquisitions = 2
    /\ Requests = 2

\* what parsing the body of a response yields: nothing for a body that is not
\* JSON, the parsed value otherwise
ParsedBody(body) ==
    CASE body = BodyHtml -> None
      [] body = BodyArray -> Some([type |-> "array", members |-> {}])
      [] body = BodyError -> Some([type |-> "object", members |-> {"error"}])
      [] body = BodyObject -> Some([type |-> "object", members |-> {"appId"}])

\* C9: the http_failure hook is called once per non-2xx response, right after
\* the request, with the response rebuilt around the captured body and the
\* parsed body if it is JSON; on Retry::After doit() sleeps and starts a new
\* iteration with a token acquisition, otherwise the failure is terminal.
C9_HttpFailure ==
    /\ Count(trace, "http_failure") = Count(responses, "failure")
    /\ hookArgs.hook = "http_failure" =>
          /\ response.kind = "response"
          /\ ~(response.status \in 200..299)
          /\ hookArgs.response = [status |-> response.status, body |-> response.body]
          /\ hookArgs.server_response = ParsedBody(response.body)
    /\ \A i \in DOMAIN trace :
          trace[i] = "http_failure" =>
              /\ i > 1 /\ trace[i - 1] = "request"
              /\ i = Len(trace) =>
                    /\ pc = "sleep" /\ retry.kind = "After"
                    /\ hookArgs.hook = "http_failure"
              /\ i < Len(trace) => trace[i + 1] \in {"sleep", Finished(FALSE)}
              /\ (i < Len(trace) /\ trace[i + 1] = "sleep" /\ i + 1 < Len(trace)) =>
                    trace[i + 2] = "get_token"
              /\ (i < Len(trace) /\ trace[i + 1] = Finished(FALSE)) =>
                    /\ i + 1 = Len(trace)
                    /\ Returned
                    /\ retry = Abort
                    /\ result.kind \in {"BadRequest", "Failure"}
                    /\ hookArgs.hook = "http_failure"

C9_Witness ==
    /\ pc = "wait"
    /\ responses = <<"failure">>
    /\ Acquisitions = 2
    /\ Requests = 2

\* C10: when doit() has returned, the delegate's begin was called exactly
\* once, as the first hook, and finished exactly once, as the last one.
C10_BeginFinished ==
    Returned =>
        /\ trace[1] = "begin"
        /\ Count(trace, "begin") = 1
        /\ Count(trace, Finished(TRUE)) + Count(trace, Finished(FALSE)) = 1
        /\ Last(trace) \in {Finished(TRUE), Finished(FALSE)}

----------------------------------------------------------------------------
(* C11 *)

\* the positions of a sequence that hold e
Positions(seq, e) == {i \in DOMAIN seq : seq[i] = e}

\* the query part of a url: what follows its first "?"
Query(u) ==
    IF Positions(u, "?") = {} THEN << >>
    ELSE LET q == CHOOSE i \in Positions(u, "?") : \A j \in Positions(u, "?") : i <= j
         IN  SubSeq(u, q + 1, Len(u))

\* the url has been assembled: doit passed the FieldClash check
UrlBuilt == pc \notin {"hub", "build"} /\ result.kind # "FieldClash"

\* C11: once doit has passed the FieldClash check, the query parameters hold
\* exactly one parameter named alt, its value is json, and the query string of
\* the url of every request sent names alt exactly once, as alt=json
C11_AltJsonOnce ==
    /\ UrlBuilt =>
          /\ Cardinality({i \in DOMAIN params : params[i][1] = "alt"}) = 1
          /\ Get(params, "alt") = Some(<<"j", "s", "o", "n">>)
    /\ pc = "wait" =>
          LET q == Query(request.uri)
          IN  /\ Cardinality(Positions(q, "alt")) = 1
              /\ \A i \in Positions(q, "alt") :
                    /\ i + 5 <= Len(q)
                    /\ SubSeq(q, i + 1, i + 5) = <<"=", "j", "s", "o", "n">>
                    /\ i + 5 < Len(q) => q[i + 6] = "&"
                    /\ i > 1 => q[i - 1] = "&"

\* a request is in flight for a list call with an optional parameter set and
\* an additional parameter whose value holds an ampersand
C11_Witness ==
    /\ pc = "wait"
    /\ method = DeviceList
    /\ self._page_size # None
    /\ "key" \in DOMAIN self._additional_params
    /\ self._additional_params["key"] = <<"&">>
    /\ request.uri = url

----------------------------------------------------------------------------
(* C12 *)

\* C12 as stated: when doit has returned, it has sent as many requests as
\* it has executed loop iterations
C12_OneRequestPerIteration == Returned => Requests = attempts

\* C12: an iteration sends at most one request, and exactly one unless it is
\* the iteration in which the token is missing: the requests sent are as many
\* as the iterations while a request is awaited or slept on and between
\* iterations, one less between get_token and the request, and when doit has
\* returned one less exactly if it returned MissingToken
C12_AtMostOneRequestPerIteration ==
    /\ Requests <= attempts
    /\ attempts <= Requests + 1
    /\ pc \in {"token", "wait", "sleep"} => Requests = attempts
    /\ pc = "send" => Requests + 1 = attempts
    /\ Returned => (Requests + 1 = attempts <=> result.kind = "MissingToken")

\* the second iteration ended with MissingToken after one request
C12_Witness ==
    /\ Returned
    /\ result.kind = "MissingToken"
    /\ attempts = 2
    /\ Requests = 1

----------------------------------------------------------------------------
(* C13 *)

\* the transport has failed every request so far
TransportAlwaysFails == \A i \in DOMAIN responses : responses[i] = "error"

\* the delegate answers every retry hook with Retry::After
AlwaysRetrying == Dlg(self) = "RetryingDelegate"

\* C13 as stated: with a transport that always fails and a delegate that
\* always answers Retry::After, doit, once in its loop, has not returned
C13_NeverTerminal ==
    (pc # "build" /\ result.kind # "FieldClash" /\ AlwaysRetrying /\ TransportAlwaysFails)
        => ~Returned

\* C13: with a transport that always fails and a delegate that always answers
\* Retry::After, doit returns only when a token is missing, never because of
\* the number of requests it has sent: after each failed request, whatever
\* their number, it sleeps and the next iteration can start
C13_NoRetryBound ==
    (AlwaysRetrying /\ TransportAlwaysFails) =>
        /\ Returned => result.kind \in {"FieldClash", "MissingToken"}
        /\ pc = "sleep" =>
              /\ retry.kind = "After"
              /\ Requests = Len(responses)
              /\ ENABLED Sleep

\* as many failed requests as the bound of the model allows, and doit is
\* about to start the next iteration
C13_Witness ==
    /\ AlwaysRetrying
    /\ TransportAlwaysFails
    /\ Requests = MaxAttempts
    /\ pc = "sleep"

----------------------------------------------------------------------------
(* C17 *)

\* the value of an Option, if it has one
OptionValues(o) == {o[i] : i \in DOMAIN o}

\* the typed query parameters the builder has a value for, with the value
\* doit pushes
TypedQuery ==
    IF method = AndroidGet THEN {}
    ELSE   {<<"readMask", v>> : v \in OptionValues(self._read_mask)}
      \cup {<<"pageToken", v>> : v \in OptionValues(self._page_token)}
      \cup {<<"pageSize", IntToString(n)>> : n \in OptionValues(self._page_size)}
      \cup {<<"filter", v>> : v \in OptionValues(self._filter)}

\* the additional parameters of the builder
AdditionalQuery == {<<k, self._additional_params[k]>> : k \in DOMAIN self._additional_params}

\* the tokens of q from position i on are name=value, up to an & or the end
HasPairAt(q, i, p) ==
    LET v == FormEncode(p[2])
    IN  /\ q[i] = p[1]
        /\ i = 1 \/ q[i - 1] = "&"
        /\ i + 1 + Len(v) <= Len(q)
        /\ q[i + 1] = "="
        /\ SubSeq(q, i + 2, i + 1 + Len(v)) = v
        /\ i + 1 + Len(v) < Len(q) => q[i + 2 + Len(v)] = "&"

\* the names of the parameters of a query string
QueryNames(q) == {q[i] : i \in {j \in DOMAIN q : j = 1 \/ q[j - 1] = "&"}}

\* C17: once the url is assembled, the name of the path parameter is not
\* among the query parameters, and every typed query parameter that was set
\* and every additional parameter is, with its value; and the same holds of
\* the query string of the url of every request sent
C17_PathParamNotInQuery ==
    /\ UrlBuilt =>
          /\ \A i \in DOMAIN params : params[i][1] # PathParam(method)
          /\ \A p \in TypedQuery \cup AdditionalQuery :
                \E i \in DOMAIN params : params[i] = p
    /\ pc = "wait" =>
          LET q == Query(request.uri)
          IN  /\ PathParam(method) \notin QueryNames(q)
              /\ \A p \in TypedQuery \cup AdditionalQuery :
                    \E i \in DOMAIN q : HasPairAt(q, i, p)
              /\ QueryNames(q) = {p[1] : p \in TypedQuery \cup AdditionalQuery} \cup {"alt"}

\* a request is in flight for a list call with a filter and the additional
\* parameter name, which is the path parameter of the other call
C17_Witness ==
    /\ pc = "wait"
    /\ method = DeviceList
    /\ self._filter # None
    /\ "name" \in DOMAIN self._additional_params
    /\ Len(Query(request.uri)) > 0

----------------------------------------------------------------------------
(* C19 *)

\* the default of the setting a setter writes
HubDefault(setter) == HubNew[HubSetterField(setter)]

\* the positions among the first n setter calls that called this setter
CallsOf(setter, n) == {i \in 1..n : hubOps[i].setter = setter}

\* the value last given to a setter among the first n calls, or its default
LastGiven(setter, n) ==
    IF CallsOf(setter, n) = {} THEN HubDefault(setter)
    ELSE hubOps[CHOOSE i \in CallsOf(setter, n) : \A j \in CallsOf(setter, n) : j <= i].given

\* C19: every hub setter call returned the value its setting had before the
\* call, which is the value last given to the same setter or the default; and
\* each of the three settings holds the value last given to its own setter, or
\* its default if that setter was never called
C19_HubSetters ==
    /\ \A i \in DOMAIN hubOps : hubOps[i].returned = LastGiven(hubOps[i].setter, i - 1)
    /\ \A setter \in HubSetters :
          hub[HubSetterField(setter)] = LastGiven(setter, Len(hubOps))

\* base_url was called twice with different values and user_agent never: the
\* second call returned the first value, the user agent is the default
C19_Witness ==
    /\ Len(hubOps) = 2
    /\ hubOps[1].setter = "base_url"
    /\ hubOps[2].setter = "base_url"
    /\ hubOps[1].given # hubOps[2].given
    /\ hubOps[2].returned = hubOps[1].given
    /\ hub._base_url = hubOps[2].given
    /\ hub._user_agent = "google-api-rust-client/5.0.2"

----------------------------------------------------------------------------
(* C18 *)

\* the token acquisition of the current iteration fell back to dlg.token
TokenFromDelegate ==
    /\ Len(trace) >= 5
    /\ SubSeq(trace, Len(trace) - 4, Len(trace)) =
          <<"get_token", "Err", "token", "pre_request", "request">>

\* C18: a request in flight carries the user agent the hub holds, and an
\* Authorization header exactly if the token of this iteration is Some, in
\* which case the header is Bearer followed by that token; the token is the
\* provider's, or the delegate's substitute if get_token failed
C18_RequestHeaders ==
    pc = "wait" =>
        /\ request.sent
        /\ request.user_agent = hub._user_agent
        /\ request.authorization # None <=> token # None
        /\ token # None => request.authorization = Some("Bearer " \o token[1])
        /\ token # None =>
              token = IF TokenFromDelegate THEN Some(DelegateToken) ELSE Some(ProviderToken)

\* a request in flight with the delegate's token, on a hub whose user agent
\* was set by the caller
C18_Witness ==
    /\ pc = "wait"
    /\ hub._user_agent = "custom-agent/1.0"
    /\ request.user_agent = "custom-agent/1.0"
    /\ token = Some(DelegateToken)
    /\ request.authorization = Some("Bearer delegate-token")

\* a request in flight without a token and without the header
C18_WitnessNoToken ==
    /\ pc = "wait"
    /\ token = None
    /\ request.authorization = None
    /\ request.user_agent = "google-api-rust-client/5.0.2"

----------------------------------------------------------------------------
(* C20 *)

\* the positions of the param() calls that gave this name
ParamCallsOf(k) == {i \in DOMAIN paramOps : paramOps[i][1] = k}

\* the typed parameters, the scopes and the delegate of a builder
NotAdditional(b) ==
    <<b._path, b._read_mask, b._page_token, b._page_size, b._filter, b._scopes, b._delegate>>

\* C20: the additional parameters hold exactly the names param() was called
\* with, each with the value of the last call for that name; and a param()
\* call changes neither the typed parameters nor the scopes nor the delegate
C20_ParamLastValue ==
    /\ [](/\ DOMAIN self._additional_params = {paramOps[i][1] : i \in DOMAIN paramOps}
          /\ \A k \in DOMAIN self._additional_params :
                \E i \in ParamCallsOf(k) :
                   /\ \A j \in ParamCallsOf(k) : j <= i
                   /\ self._additional_params[k] = paramOps[i][2])
    /\ [][paramOps' # paramOps =>
             /\ NotAdditional(self') = NotAdditional(self)
             /\ scopeOps' = scopeOps
             /\ method' = method]_vars

\* param() was called twice for the same name with different values, and the
\* second value is the one held
C20_Witness ==
    /\ Len(paramOps) = 2
    /\ paramOps[1][1] = paramOps[2][1]
    /\ paramOps[1][2] # paramOps[2][2]
    /\ self._additional_params[paramOps[2][1]] = paramOps[2][2]
    /\ Cardinality(DOMAIN self._additional_params) = 1

----------------------------------------------------------------------------
(* C14 *)

\* the -p keys a method subcommand has a parameter for
MethodParams(sub) == IF sub = "budgets-list" THEN {"page-token", "page-size"} ELSE {}

\* the keys of the -p arguments that are neither a parameter of the method
\* nor a global parameter
UnknownKeys(m) ==
    {ParseKvArg(m.v[i]).key : i \in DOMAIN m.v} \ (MethodParams(m.sub) \cup Gp)

HasUnknownParam(m) == m.sub \in CliMethods /\ UnknownKeys(m) # {}

\* the keys Engine::new has reported as unknown parameters
ReportedUnknown ==
    IF engineNew.kind # "Err" THEN {}
    ELSE {engineNew.err.issues[i].key :
             i \in {j \in DOMAIN engineNew.err.issues :
                       engineNew.err.issues[j].kind = "UnknownParameter"}}

\* Engine::new has returned without calling _doit(true)
DryRunNotReached ==
    /\ engineNew.kind = "Err"
    /\ engineNew.err.issues[1].kind = "ConfigurationError"

\* the CLI has not entered Engine::doit and has made no API call
DoitNotReached ==
    /\ cliPc \in {"new", "exit"}
    /\ cliCall = NoCall
    /\ apiCalls = 0
    /\ doitResult = NoResult

\* C14 as stated: for a command line with an unknown -p key, Engine::new has
\* returned an InvalidOptionsError that reports the key, and Engine::doit is
\* not reached
C14_UnknownParamDetected ==
    (HasUnknownParam(matches) /\ cliPc # "main") =>
        /\ engineNew.kind = "Err"
        /\ UnknownKeys(matches) \subseteq ReportedUnknown
        /\ DoitNotReached

\* C14: for a command line with an unknown -p key, Engine::doit is not
\* reached: Engine::new has panicked on the authenticator, the process ending
\* with the status of a panic, or it has returned an InvalidOptionsError; the
\* error is that of the configuration directory or the application secret,
\* with exit code 3 or 4, if one of these fails, and otherwise the one of the
\* dry run, which reports every unknown key and has exit code 1
C14_UnknownParam ==
    (HasUnknownParam(matches) /\ cliPc # "main") =>
        /\ engineNew.kind \in {"Err", "panic"}
        /\ DoitNotReached
        /\ engineNew.kind = "panic" =>
              /\ engineNew.error = "unwrap"
              /\ ReportedUnknown = {}
              /\ cliPc = "exit" /\ exitStatus = Some(101)
        /\ engineNew.kind = "Err" =>
              /\ IF DryRunNotReached
                 THEN /\ ReportedUnknown = {}
                      /\ engineNew.err.exit_code \in {3, 4}
                 ELSE /\ ReportedUnknown = UnknownKeys(matches)
                      /\ engineNew.err.exit_code = 1
              /\ cliPc = "exit" => exitStatus = Some(engineNew.err.exit_code)

\* the process has exited after the dry run reported the key bogus, given
\* after a global parameter
C14_Witness ==
    /\ cliPc = "exit"
    /\ matches.sub = "budgets-list"
    /\ Len(matches.v) = 2
    /\ ParseKvArg(matches.v[1]).key = "pretty-print"
    /\ ReportedUnknown = {"bogus"}
    /\ exitStatus = Some(1)
    /\ apiCalls = 0

\* the process has ended in the panic of Engine::new on the authenticator,
\* the key bogus unreported
C14_WitnessAuth ==
    /\ cliPc = "exit"
    /\ "bogus" \in UnknownKeys(matches)
    /\ matches.sub \in CliMethods
    /\ engineNew.kind = "panic"
    /\ Last(stderr).what = "panic"
    /\ exitStatus = Some(101)

\* the process has exited on a missing application secret, the key bogus
\* unreported
C14_WitnessSecret ==
    /\ cliPc = "exit"
    /\ "bogus" \in UnknownKeys(matches)
    /\ matches.sub \in CliMethods
    /\ ReportedUnknown = {}
    /\ exitStatus = Some(4)

----------------------------------------------------------------------------
(* C15 *)

\* C15: the process exits with status 0 exactly if Engine::new returned the
\* engine and Engine::doit returned Ok; with status 1 if doit returned an
\* IoError or an ApiError; with the exit code of the InvalidOptionsError if
\* Engine::new returned one; and no status is set before the process exits
C15_ExitStatus ==
    /\ cliPc = "exit" =>
          /\ exitStatus # None
          /\ exitStatus = Some(0) <=> (engineNew.kind = "Ok" /\ doitResult.kind = "Ok")
          /\ doitResult.kind \in {"IoError", "ApiError"} => exitStatus = Some(1)
          /\ engineNew.kind = "Err" =>
                /\ exitStatus = Some(engineNew.err.exit_code)
                /\ doitResult = NoResult
    /\ cliPc # "exit" => exitStatus = None

\* the process has exited with status 1 after the output file could not be
\* opened
C15_Witness ==
    /\ cliPc = "exit"
    /\ engineNew.kind = "Ok"
    /\ doitResult.kind = "IoError"
    /\ exitStatus = Some(1)
    /\ apiCalls = 0

\* the process has exited with status 0
C15_WitnessOk ==
    /\ cliPc = "exit"
    /\ doitResult.kind = "Ok"
    /\ exitStatus = Some(0)
    /\ apiCalls = 1

----------------------------------------------------------------------------
(* C16 *)

\* C16: when the process has exited after an API error, the error was written
\* to standard error in the debug rendering if --debug was given and in the
\* plain rendering otherwise
C16_DebugRendering ==
    (cliPc = "exit" /\ doitResult.kind = "ApiError") =>
        /\ Last(stderr).what = "ApiError"
        /\ Last(stderr).rendering = IF IsPresent(matches, "debug") THEN "{:#?}" ELSE "{}"

----------------------------------------------------------------------------
(* C23 *)

\* what doit returns as an error
ErrorKinds ==
    {"FieldClash", "MissingToken", "HttpError", "BadRequest", "Failure", "JsonDecodeError"}

\* C23: where the delegate's finished was called, it was called once, as the
\* last event of the call, and doit has returned: Ok if the flag was true, an
\* error if it was false
C23_FinishedFlag ==
    LET done == {i \in DOMAIN trace : trace[i] \in {"finished(true)", "finished(false)"}}
    IN  \A i \in done :
           /\ Cardinality(done) = 1
           /\ i = Len(trace)
           /\ Returned
           /\ trace[i] = "finished(true)" => result.kind = "Ok"
           /\ trace[i] = "finished(false)" => result.kind \in ErrorKinds

\* doit has returned BadRequest after a retry, finished(false) being the last
\* hook called
C23_Witness ==
    /\ Returned
    /\ result.kind = "BadRequest"
    /\ Last(trace) = "finished(false)"
    /\ Count(trace, "sleep") = 1

\* doit has returned Ok, finished(true) being the last hook called
C23_WitnessOk ==
    /\ Returned
    /\ result.kind = "Ok"
    /\ Last(trace) = "finished(true)"

----------------------------------------------------------------------------
(* C27 *)

\* the variants of client::Error that doit never builds
OtherErrorKinds == {"Cancelled", "UploadSizeLimitExceeded", "MissingAPIKey", "Io"}

\* C27: doit has returned nothing before it is done, and then Ok or one of
\* FieldClash, MissingToken, HttpError, BadRequest, Failure, JsonDecodeError;
\* each of the errors comes from its own place: FieldClash before any token
\* was asked for, MissingToken after a failed get_token, HttpError after a
\* transport error, BadRequest and Failure after a non-2xx response,
\* JsonDecodeError after a 2xx response
C27_ErrorKinds ==
    /\ ~Returned => result = NoResult
    /\ Returned =>
          /\ result.kind \in {"Ok"} \cup ErrorKinds
          /\ result.kind \notin OtherErrorKinds
          /\ result.kind = "FieldClash" => Acquisitions = 0
          /\ result.kind = "MissingToken" => Acquisitions = Requests + 1
          /\ result.kind = "HttpError" => Last(responses) = "error"
          /\ result.kind \in {"BadRequest", "Failure"} => Last(responses) = "failure"
          /\ result.kind \in {"Ok", "JsonDecodeError"} => Last(responses) = "success"

\* a delegate that may retry gave up on a transport error: doit has returned
\* HttpError
C27_Witness ==
    /\ Returned
    /\ Dlg(self) = "AnyDelegate"
    /\ retry = Abort
    /\ result.kind = "HttpError"
    /\ Len(responses) = 2

----------------------------------------------------------------------------
(* C25: order of the events of one doit() call                             *)

\* the token acquisition of the iteration that ends right before position i:
\* get_token answered, or get_token failed and dlg.token supplied one
TokenAcquiredBefore(i) ==
    \/ i > 1 /\ trace[i - 1] = "get_token"
    \/ i > 3 /\ trace[i - 3] = "get_token" /\ trace[i - 2] = "Err" /\ trace[i - 1] = "token"

\* C25: dlg.begin is the first event of doit() and happens once, no token is
\* acquired when the FieldClash check fails, dlg.pre_request comes exactly
\* once immediately before each request and is always followed by one, and a
\* request is sent only after the token acquisition of its own iteration.
C25_EventOrder ==
    /\ trace # << >> => trace[1] = "begin" /\ Count(trace, "begin") = 1
    /\ result.kind = "FieldClash" => trace = <<"begin", "finished(false)">>
    /\ \A i \in DOMAIN trace :
          /\ trace[i] = "pre_request" =>
                /\ i < Len(trace) /\ trace[i + 1] = "request"
                /\ TokenAcquiredBefore(i)
          /\ trace[i] = "request" => i > 1 /\ trace[i - 1] = "pre_request"
    /\ pc = "send" => Len(trace) > 1 /\ TokenAcquiredBefore(Len(trace) + 1)

\* a second iteration whose token came from dlg.token has its request in flight
C25_Witness ==
    /\ pc = "wait"
    /\ Requests = 2
    /\ Len(trace) > 4
    /\ trace[Len(trace) - 2] = "token"
    /\ trace[Len(trace) - 3] = "Err"

----------------------------------------------------------------------------
(* C26: what stays the same between the attempts of one doit() call        *)

InLoop == pc \in {"token", "send", "wait", "sleep"}

\* C26: the URL, the HTTP method, the user agent and the scope set are fixed
\* when the retry loop is entered: every request carries the URL built before
\* the loop, the method GET and the hub's user agent, every token is asked for
\* the same scope set, and no step of the loop changes the URL, the hub or the
\* scopes; only the Authorization header depends on the iteration.
C26_LoopFrame ==
    /\ [](pc = "wait" =>
             /\ request.uri = url
             /\ request.method = "GET"
             /\ request.user_agent = hub._user_agent)
    /\ [](InLoop => asked \subseteq {self._scopes})
    /\ [][InLoop =>
             /\ url' = url
             /\ params' = params
             /\ hub' = hub
             /\ method' = method
             /\ self'._scopes = self._scopes]_vars

\* the second request of a call is in flight with the delegate's token while
\* the first one carried what the token provider answered
C26_Witness ==
    /\ pc = "wait"
    /\ Requests = 2
    /\ TokenFromDelegate
    /\ request.authorization = Some("Bearer " \o DelegateToken)
    /\ trace[2] = "get_token"
    /\ trace[3] = "pre_request"

----------------------------------------------------------------------------
(* C24: doit() terminates when the delegate stops retrying                 *)

\* the delegate answered Retry::After after every one of the MaxAttempts
\* iterations explored: the executions that retry beyond the explored bound
RetriedToTheBound == Count(trace, "sleep") = MaxAttempts

\* C24: with the token provider, the transport and the sleep completing, a
\* doit() call that has entered its loop eventually returns Ok or a terminal
\* error, unless its delegate asks for a retry after every iteration: at no
\* time does the call stay in its loop for ever without having returned, and
\* a call that has returned stays returned.
C24_Terminates ==
    /\ []<>(InLoop => (Returned \/ RetriedToTheBound))
    /\ [][Returned => Returned']_vars

\* doit() has returned after the delegate asked for one retry and then stopped
C24_Witness ==
    /\ Returned
    /\ Count(trace, "sleep") = 1
    /\ Count(trace, "sleep") < MaxAttempts
    /\ result.kind \in {"Ok", "HttpError", "Failure"}

----------------------------------------------------------------------------
(* C21: the path parameter survives the way into the URL and back          *)

\* the characters of one piece of a url: an escape written by the encoder is
\* a percent sign and two hex digits
Chars(piece) ==
    CASE piece = "%20" -> <<"%", "2", "0">>
      [] piece = "%23" -> <<"%", "2", "3">>
      [] piece = "%3C" -> <<"%", "3", "C">>
      [] piece = "%3E" -> <<"%", "3", "E">>
      [] piece = "%3F" -> <<"%", "3", "F">>
      [] piece = "%7B" -> <<"%", "7", "B">>
      [] piece = "%7D" -> <<"%", "7", "D">>
      [] OTHER -> <<piece>>

RECURSIVE Flatten(_)
Flatten(u) == IF u = << >> THEN << >> ELSE Chars(Head(u)) \o Flatten(Tail(u))

HexDigits == {"0", "1", "2", "3", "4", "7", "B", "C", "D", "E", "F"}

\* the character an escape %h1h2 stands for
Unescape(h1, h2) ==
    CASE <<h1, h2>> = <<"2", "0">> -> " "
      [] <<h1, h2>> = <<"2", "3">> -> "#"
      [] <<h1, h2>> = <<"3", "C">> -> "<"
      [] <<h1, h2>> = <<"3", "E">> -> ">"
      [] <<h1, h2>> = <<"3", "F">> -> "?"
      [] <<h1, h2>> = <<"7", "B">> -> "{"
      [] <<h1, h2>> = <<"7", "D">> -> "}"
      [] <<h1, h2>> = <<"4", "1">> -> "A"
      [] <<h1, h2>> = <<"4", "4">> -> "D"
      [] OTHER -> "0x" \o h1 \o h2

\* percent-decoding of a sequence of characters: every percent sign followed
\* by two hex digits is one character, anything else stands for itself
RECURSIVE PercentDecode(_)
PercentDecode(cs) ==
    IF cs = << >> THEN << >>
    ELSE IF Len(cs) >= 3 /\ cs[1] = "%" /\ cs[2] \in HexDigits /\ cs[3] \in HexDigits
         THEN <<Unescape(cs[2], cs[3])>> \o PercentDecode(SubSeq(cs, 4, Len(cs)))
         ELSE <<Head(cs)>> \o PercentDecode(Tail(cs))

\* the path of a url: what precedes its first "?"
PathOf(u) ==
    IF Positions(u, "?") = {} THEN u
    ELSE LET q == CHOOSE i \in Positions(u, "?") : \A j \in Positions(u, "?") : i <= j
         IN  SubSeq(u, 1, q - 1)

\* re-parsing a url of method m: the part of its path that stands where the
\* template has its placeholder, percent-decoded
ReparsedPathParam(m, u) ==
    LET path == PathOf(u)
        last == IF m = AndroidGet THEN Len(path) ELSE Len(path) - 1
    IN  PercentDecode(Flatten(SubSeq(path, 3, last)))

\* the url is base url + template with the placeholder replaced by the
\* encoded value, followed by ?alt=json
UrlIsTemplateFilled ==
    url = <<hub._base_url, "v1/">> \o PercentEncode(self._path)
             \o (IF method = AndroidGet THEN << >> ELSE <<"/telemetry/devices">>)
             \o <<"?", "alt", "=", "j", "s", "o", "n">>

\* C21: for every value of the path parameter, the URL doit assembles is the
\* base url plus the template with the placeholder replaced by the encoded
\* value (a / kept as it is) and alt=json appended, and re-parsing that URL
\* gives the value back.
C21_UrlRoundTrip ==
    pc = "token" =>
        /\ UrlIsTemplateFilled
        /\ \A i \in DOMAIN self._path :
              self._path[i] = "/" => PercentEncode(self._path)[i] = "/"
        /\ ReparsedPathParam(method, url) = self._path

----------------------------------------------------------------------------
(* C22: a GoogleTypeDate survives the way into JSON and back               *)

\* the text written for field f of the date
WrittenFor(f) == ValueAt(json, CHOOSE k \in DOMAIN json : json[k] = f)

\* C22: serializing a GoogleTypeDate and deserializing the text gives an equal
\* value, whatever combination of absent fields and integers it holds: a field
\* that is 0 is written as 0 and comes back as Some(0), and an absent field is
\* written as null and comes back absent, never as 0.
C22_DateRoundTrip ==
    /\ json # NoJson =>
          \A i \in DOMAIN DateFields :
             LET f == DateFields[i]
             IN  /\ date[f] = Some(0) <=> WrittenFor(f) = <<"0">>
                 /\ date[f] = None <=> WrittenFor(f) = <<"null">>
    /\ decoded # NoDate =>
          /\ decoded = date
          /\ \A i \in DOMAIN DateFields :
                LET f == DateFields[i]
                IN  /\ date[f] = Some(0) => decoded[f] = Some(0)
                    /\ date[f] = None => decoded[f] = None /\ decoded[f] # Some(0)

\* a year on its own with a zero month and no day has made the round trip
C22_Witness ==
    /\ decoded # NoDate
    /\ date = [day |-> None, month |-> Some(0), year |-> Some(2024)]
    /\ json = <<"{", "day", ":", "null", ",", "month", ":", "0", ",",
                "year", ":", "2", "0", "2", "4", "}">>

----------------------------------------------------------------------------
(* C28: the -p keys the CLI accepts and the builder's FieldClash check     *)

\* C28: a call the CLI has set up from an accepted command line holds no
\* additional parameter that the builder's FieldClash check rejects, and the
\* call never fails with FieldClash.
C28_AcceptedKeysPassFieldClash ==
    /\ cliCall # NoCall =>
          (DOMAIN cliCall._additional_params) \cap CliFields(cliCall.kind) = {}
    /\ doitResult.kind = "ApiError" => doitResult.error # "FieldClash"

----------------------------------------------------------------------------
(* C29: the dry run, the assert and the unreachable arms of the Engine     *)

\* C29: for every command line, _doit(true) returns Err and _doit(false)
\* returns Ok; Engine::new returns Ok only after a dry run without issues,
\* and does not return an Engine when no command or no method is named;
\* Engine::doit runs only on such an Engine, so that neither an unreachable
\* arm nor the assert on err.issues before the call is ever hit.
C29_DryRunGuardsDoit ==
    /\ EngineDoit(matches, TRUE).kind = "Err"
    /\ EngineDoit(matches, FALSE).kind = "Ok"
    /\ engineNew.kind \in {"none", "Ok", "Err", "panic"}
    /\ engineNew.kind = "panic" => engineNew.error # "unreachable"
    /\ engineNew.kind = "Ok" =>
          /\ matches.sub \in CliMethods
          /\ DoitIssues(matches) = << >>
    /\ (cliPc # "main" /\ matches.sub \notin CliMethods) =>
          /\ engineNew.kind \in {"Err", "panic"}
          /\ engineNew.kind = "Err" =>
                \/ DryRunNotReached
                \/ engineNew.err.issues =
                      << [kind |-> IF matches.sub = "none" THEN "MissingMethodError"
                                   ELSE "MissingCommandError",
                          key  |-> IF matches.sub = "none" THEN "billing-accounts" ELSE "-"] >>
          /\ apiCalls = 0
          /\ doitResult = NoResult
    /\ (cliCall # NoCall \/ doitResult # NoResult) =>
          /\ engineNew.kind = "Ok"
          /\ MethodCall(matches).issues = << >>
    /\ doitResult.kind = "panic" => doitResult.error \notin {"assert", "unreachable"}

\* Engine::doit has made its call after a dry run that accepted two -p
\* arguments
C29_Witness ==
    /\ cliPc = "returned"
    /\ apiCalls = 1
    /\ Len(matches.v) = 2
    /\ engineNew.kind = "Ok"

\* a command line without a method has made Engine::new fail in the dry run
C29_WitnessMissingMethod ==
    /\ cliPc = "exit"
    /\ matches.sub = "none"
    /\ engineNew.kind = "Err"
    /\ engineNew.err.issues = << [kind |-> "MissingMethodError", key |-> "billing-accounts"] >>

\* a command line without a command has made Engine::new fail in the dry run
C29_WitnessMissingCommand ==
    /\ cliPc = "exit"
    /\ matches.sub = "no-command"
    /\ engineNew.kind = "Err"
    /\ engineNew.err.issues = << [kind |-> "MissingCommandError", key |-> "-"] >>
    /\ exitStatus = Some(1)

\* the authenticator could not be built: Engine::new has panicked before the
\* dry run and no call was set up
C29_WitnessAuthPanic ==
    /\ cliPc = "exit"
    /\ engineNew = [kind |-> "panic", error |-> "unwrap"]
    /\ matches.sub \in CliMethods
    /\ cliCall = NoCall
    /\ exitStatus = Some(101)

----------------------------------------------------------------------------
(* C30: the name and the value a global -p argument reaches param() with   *)

\* the API names of the keys that have one
ApiNames ==
    { <<"$-xgafv", "$.xgafv">>, <<"access-token", "access_token">>,
      <<"oauth-token", "oauth_token">>, <<"pretty-print", "prettyPrint">>,
      <<"quota-user", "quotaUser">>, <<"upload-type", "uploadType">>,
      <<"upload-protocol", "upload_protocol">> }

\* the name a global key is to reach param() with
NameFor(key) ==
    IF \E t \in ApiNames : t[1] = key
    THEN (CHOOSE t \in ApiNames : t[1] = key)[2]
    ELSE key

\* the key of a -p argument as typed: its first piece
KeyOf(kv) == kv[1]

\* the -p arguments of the command line m that name a global parameter
GlobalArgs(m) == {i \in DOMAIN m.v : KeyOf(m.v[i]) \in Gp}

\* C30: the call built from a command line holds, for every global -p key
\* given, an additional parameter under the key's API name where the key has
\* one and under the key itself otherwise, and no other; its value is the one
\* given last for that key, or "unset" where the key came without a value.
C30_GlobalParamNames ==
    LET ps == MethodCall(matches).call._additional_params
    IN  matches.sub \in CliMethods =>
           /\ DOMAIN ps = {NameFor(KeyOf(matches.v[i])) : i \in GlobalArgs(matches)}
           /\ \A i \in GlobalArgs(matches) :
                 (\A j \in GlobalArgs(matches) :
                     KeyOf(matches.v[j]) = KeyOf(matches.v[i]) => j <= i)
                 => ps[NameFor(KeyOf(matches.v[i]))] =
                       IF Len(matches.v[i]) = 1 THEN "unset" ELSE matches.v[i][3]
           /\ cliCall # NoCall => cliCall._additional_params = ps

\* the call Engine::doit has made carries prettyPrint and quotaUser
C30_Witness ==
    /\ cliPc = "returned"
    /\ apiCalls = 1
    /\ cliCall._additional_params = [prettyPrint |-> "true", quotaUser |-> "u"]

\* a key without a value has reached the call of the dry run as "unset", and
\* the dry run has failed on its syntax
C30_WitnessUnset ==
    /\ cliPc = "exit"
    /\ matches.sub \in CliMethods
    /\ matches.v = << <<"key">> >>
    /\ MethodCall(matches).call._additional_params = [key |-> "unset"]
    /\ engineNew.kind = "Err"

====
